---- MODULE Spec2Model ----
(***************************************************************************)
(* A model of sapphire-config: the nested interpolation resolver           *)
(* (parser.py, NestedInterpolation), the fallback rules of Parser.get,     *)
(* get_list and get_components (parser.py) and the component view          *)
(* synthesis of Component._create_proxy (component.py).                    *)
(*                                                                         *)
(* Python strings are modelled as sequences of one-character strings, so   *)
(* that startswith, replace, split, the placeholder regular expression and *)
(* the lower-casing optionxform are computed as the code computes them.    *)
(* A dict is modelled as a sequence of [k, v] records with distinct keys,  *)
(* in insertion order.                                                     *)
(***************************************************************************)
EXTENDS Integers, Sequences, FiniteSets, TLC

VARIABLES
    parent,      \* the parent Parser: [defaults, sections]
    pc,          \* position of the running operation
    args,        \* the arguments of the running operation
    names,       \* get_components: names still to construct
    calls,       \* get_components: factory invocations so far, in order
    components,  \* get_components: the mapping built so far (a dict name -> view)
    result,      \* outcome of the finished operation
    value,       \* before_get: the working string
    depth,       \* before_get: passes left
    passes,      \* before_get: passes begun
    heap         \* the private Parser objects of the views held by reference

vars == <<parent, pc, args, names, calls, components, result, value, depth,
          passes, heap>>

----------------------------------------------------------------------------
(* Python str primitives on character sequences.                           *)

\* str.startswith
StartsWith(s, p) ==
    /\ Len(p) <= Len(s)
    /\ SubSeq(s, 1, Len(p)) = p

\* the first index >= i at which old occurs in s, or 0
RECURSIVE FindFrom(_, _, _)
FindFrom(s, old, i) ==
    IF i + Len(old) - 1 > Len(s) THEN 0
    ELSE IF SubSeq(s, i, i + Len(old) - 1) = old THEN i
    ELSE FindFrom(s, old, i + 1)

\* the "in" operator on strings
Contains(s, old) == FindFrom(s, old, 1) # 0

\* str.replace(old, new), old non-empty: every non-overlapping occurrence,
\* left to right
RECURSIVE Replace(_, _, _)
Replace(s, old, new) ==
    LET i == FindFrom(s, old, 1) IN
    IF i = 0 THEN s
    ELSE SubSeq(s, 1, i - 1) \o new
         \o Replace(SubSeq(s, i + Len(old), Len(s)), old, new)

\* str.lower on one character
LowerChar(c) ==
    CASE c = "A" -> "a"
      [] c = "B" -> "b"
      [] c = "C" -> "c"
      [] c = "K" -> "k"
      [] c = "M" -> "m"
      [] c = "F" -> "f"
      [] c = "T" -> "t"
      [] OTHER -> c

\* the last index of the run of non-whitespace that index i is in
RECURSIVE WordEnd(_, _)
WordEnd(s, i) ==
    IF i + 1 > Len(s) \/ s[i + 1] = " " THEN i ELSE WordEnd(s, i + 1)

\* str.split() with sep=None: the maximal runs of non-whitespace
RECURSIVE SplitWs(_)
SplitWs(s) ==
    IF s = <<>> THEN <<>>
    ELSE IF Head(s) = " " THEN SplitWs(Tail(s))
    ELSE <<SubSeq(s, 1, WordEnd(s, 1))>>
         \o SplitWs(SubSeq(s, WordEnd(s, 1) + 1, Len(s)))

----------------------------------------------------------------------------
(* Python dict, in insertion order.                                        *)

Keys(od) == {od[i].k : i \in 1..Len(od)}

KeyList(od) == [i \in 1..Len(od) |-> od[i].k]

Has(od, key) == key \in Keys(od)

Lookup(od, key) == od[CHOOSE i \in 1..Len(od) : od[i].k = key].v

\* d[key] = val
Put(od, key, val) ==
    IF Has(od, key)
    THEN [i \in 1..Len(od) |-> IF od[i].k = key THEN [k |-> key, v |-> val]
                                ELSE od[i]]
    ELSE Append(od, [k |-> key, v |-> val])

----------------------------------------------------------------------------
(* Values passed to and returned from the accessors.                       *)

Str(s)   == [kind |-> "str", val |-> s, items |-> <<>>]
ListOf(l) == [kind |-> "list", val |-> <<>>, items |-> l]
None     == [kind |-> "none", val |-> <<>>, items |-> <<>>]
UNSET    == [kind |-> "unset", val |-> <<>>, items |-> <<>>]
Raise(e) == [kind |-> e, val |-> <<>>, items |-> <<>>]

Errors == {"NoSectionError", "NoOptionError", "InterpolationDepthError",
           "InterpolationMissingOptionError", "FactoryError", "KeyError",
           "ValueError", "InvalidSize", "TypeError", "ZeroDivisionError",
           "ImportError", "AttributeError", "InitError"}

IsError(r) == r.kind \in Errors

----------------------------------------------------------------------------
(* configparser's store.  A Parser is [defaults, sections]: the DEFAULT    *)
(* dict and a function from section names to dicts.                        *)

DOT == <<".">>

DEFAULTSECT == <<"D", "E", "F", "A", "U", "L", "T">>

MAX_INTERPOLATION_DEPTH == 10

\* RawConfigParser.optionxform: option names are lower-cased
optionxform(option) == [i \in 1..Len(option) |-> LowerChar(option[i])]

EmptyParser == [defaults |-> <<>>, sections |-> [n \in {} |-> <<>>]]

HasSection(parser, section) == section \in DOMAIN parser.sections

\* the section's own dict; {} for DEFAULT (RawConfigParser._unify_values)
SectionDict(parser, section) ==
    IF HasSection(parser, section) THEN parser.sections[section] ELSE <<>>

\* the ChainMap of _unify_values: the section's options shadow DEFAULT's
TableHas(sect, defaults, key) == Has(sect, key) \/ Has(defaults, key)

TableGet(sect, defaults, key) ==
    IF Has(sect, key) THEN Lookup(sect, key) ELSE Lookup(defaults, key)

\* RawConfigParser.options: the section's keys, then the DEFAULT keys not
\* among them (opts = section.copy(); opts.update(defaults))
RECURSIVE Without(_, _)
Without(keys, sect) ==
    IF keys = <<>> THEN <<>>
    ELSE (IF Has(sect, Head(keys)) THEN <<>> ELSE <<Head(keys)>>)
         \o Without(Tail(keys), sect)

Options(parser, section) ==
    KeyList(SectionDict(parser, section))
    \o Without(KeyList(parser.defaults), SectionDict(parser, section))

\* RawConfigParser.set: DEFAULT's dict or the section's, key through optionxform
ParserSet(parser, section, option, val) ==
    IF section = DEFAULTSECT
    THEN [parser EXCEPT !.defaults = Put(@, optionxform(option), val)]
    ELSE [parser EXCEPT !.sections[section] = Put(@, optionxform(option), val)]

\* RawConfigParser.add_section
AddSection(parser, section) ==
    [parser EXCEPT !.sections =
        [n \in DOMAIN parser.sections \cup {section} |->
            IF n = section THEN <<>> ELSE parser.sections[n]]]

----------------------------------------------------------------------------
(* NestedInterpolation.                                                    *)

PCT == <<"%">>
OPEN == <<"%", "(">>

\* a pattern %\((?:[^)]+)\)s, which lets "(" into the body
RECURSIVE BracketClosingOnly(_, _)
BracketClosingOnly(s, j) ==
    IF j > Len(s) THEN 0
    ELSE IF s[j] = ")" THEN j
    ELSE BracketClosingOnly(s, j + 1)

\* the index of the first bracket of s at or after j, or 0
RECURSIVE Bracket(_, _)
Bracket(s, j) ==
    IF j > Len(s) THEN 0
    ELSE IF s[j] \in {"(", ")"} THEN j
    ELSE Bracket(s, j + 1)

\* whether _KEYCRE = %\((?:[^()]+)\)s matches at index i; the index of the
\* closing "s" if so, 0 otherwise.  The body runs up to the first bracket
\* after "%(", which must be ")" with at least one character before it.
KeyEndAt(s, i) ==
    IF ~(i + 1 <= Len(s) /\ s[i] = "%" /\ s[i + 1] = "(") THEN 0
    ELSE LET j == Bracket(s, i + 2)
         IN IF j > i + 2 /\ s[j] = ")" /\ j + 1 <= Len(s) /\ s[j + 1] = "s"
            THEN j + 1 ELSE 0

\* _KEYCRE.findall: the non-overlapping matches, left to right
RECURSIVE FindAllFrom(_, _)
FindAllFrom(s, i) ==
    IF i > Len(s) THEN <<>>
    ELSE LET e == KeyEndAt(s, i) IN
         IF e = 0 THEN FindAllFrom(s, i + 1)
         ELSE <<SubSeq(s, i, e)>> \o FindAllFrom(s, e + 1)

FindAll(s) == FindAllFrom(s, 1)

\* key[2:-2]: the name between "%(" and ")s"
KeyName(key) == SubSeq(key, 3, Len(key) - 2)

\* the "for key in keys" loop of one pass: each key is looked up in the
\* merged table and every occurrence of it is replaced in the working value
RECURSIVE ReplaceKeys(_, _, _, _)
ReplaceKeys(val, keys, sect, defaults) ==
    IF keys = <<>> THEN [status |-> "replaced", val |-> val]
    ELSE LET k == optionxform(KeyName(Head(keys))) IN
         IF ~TableHas(sect, defaults, k)
         THEN [status |-> "missing", val |-> val]
         ELSE ReplaceKeys(Replace(val, Head(keys), TableGet(sect, defaults, k)),
                          Tail(keys), sect, defaults)

\* one iteration of the while loop: "break" when nothing matches
InterpPass(val, sect, defaults) ==
    LET keys == FindAll(val) IN
    IF keys = <<>> THEN [status |-> "break", val |-> val]
    ELSE ReplaceKeys(val, keys, sect, defaults)

\* every "%" taken as an escape of the character after it
RECURSIVE DropEscapes(_, _)
DropEscapes(s, i) ==
    IF i > Len(s) THEN <<>>
    ELSE IF s[i] = "%" /\ i < Len(s)
        THEN <<s[i + 1]>> \o DropEscapes(s, i + 2)
    ELSE <<s[i]>> \o DropEscapes(s, i + 1)

\* an unescape that drops the "%" before any character
InterpFinishAnyEscape(val) ==
    IF Contains(val, OPEN) THEN Raise("InterpolationDepthError")
    ELSE Str(DropEscapes(val, 1))

\* after the loop: leftover "%(" raises, otherwise "%%" is unescaped
InterpFinish(val) ==
    IF Contains(val, OPEN) THEN Raise("InterpolationDepthError")
    ELSE Str(Replace(val, <<"%", "%">>, PCT))

\* the while loop with d passes left; r is the outcome of the pass just made
RECURSIVE InterpLoop(_, _, _, _)
InterpStep(r, val, d, sect, defaults) ==
    CASE r.status = "break"   -> InterpFinish(val)
      [] r.status = "missing" -> Raise("InterpolationMissingOptionError")
      [] OTHER                -> InterpLoop(r.val, d - 1, sect, defaults)

InterpLoop(val, d, sect, defaults) ==
    IF d = 0 THEN InterpFinish(val)
    ELSE InterpStep(InterpPass(val, sect, defaults), val, d, sect, defaults)

before_get(val, sect, defaults) ==
    InterpLoop(val, MAX_INTERPOLATION_DEPTH, sect, defaults)

----------------------------------------------------------------------------
(* Parser.get and the list accessor.                                       *)

\* get without the fallback=None default: an absent option always raises
MissingAlwaysRaises(err, fallback) ==
    IF fallback \in {UNSET, None} THEN Raise(err) ELSE fallback

\* an absent option or section: the error when the fallback is the required
\* sentinel, the fallback otherwise (None when none was given)
Missing(err, fallback) == IF fallback = UNSET THEN Raise(err) ELSE fallback

\* whether get finds the option: the section is there (DEFAULT always is)
\* and the option is in it or in DEFAULT
Found(parser, section, option) ==
    /\ HasSection(parser, section) \/ section = DEFAULTSECT
    /\ TableHas(SectionDict(parser, section), parser.defaults,
                optionxform(option))

\* the raw value get finds
RawValue(parser, section, option) ==
    TableGet(SectionDict(parser, section), parser.defaults, optionxform(option))

\* ConfigParser.get as called by Parser.get: fallback None unless given
Get(parser, section, option, raw, fallback) ==
    IF ~HasSection(parser, section) /\ section # DEFAULTSECT
        THEN Missing("NoSectionError", fallback)
    ELSE IF ~Found(parser, section, option)
        THEN Missing("NoOptionError", fallback)
    ELSE IF raw
        THEN Str(RawValue(parser, section, option))
    ELSE before_get(RawValue(parser, section, option),
                    SectionDict(parser, section), parser.defaults)

\* None split like the empty string with a separator: one empty element
as_list_none_split(v) ==
    CASE v.kind = "list" -> v
      [] v.kind = "none" -> ListOf(<< <<>> >>)
      [] v.kind = "str"  -> ListOf(SplitWs(v.val))
      [] OTHER           -> v

\* as_list with sep=None, conv=str
as_list(v) ==
    CASE v.kind = "list" -> v
      [] v.kind = "none" -> ListOf(<<>>)
      [] v.kind = "str"  -> ListOf(SplitWs(v.val))
      [] OTHER           -> v

\* Parser.get_list
get_list(parser, section, option, fallback) ==
    as_list(Get(parser, section, option, FALSE, fallback))

----------------------------------------------------------------------------
(* Component._create_proxy and Component._get_values.                      *)

STAR == <<"*">>
NAME == <<"n", "a", "m", "e">>
MIXIN == <<"m", "i", "x", "i", "n">>
DEFAULTNAME == <<"d", "e", "f", "a", "u", "l", "t">>

\* f"{prefix}.{name}"
Dotted(a, b) == a \o DOT \o b

\* f"{prefix}.{name}.": the key prefix of one layer
LayerPrefix(a, b) == a \o DOT \o b \o DOT

\* newkey = key.replace(prefix, "")
StripKey(key, prefix) == Replace(key, prefix, <<>>)

\* _get_values: the dict of the parent's keys that start with prefix, each
\* under its stripped key with the parent's raw value, in the parent's order
RECURSIVE GetValuesLoop(_, _, _, _, _)
GetValuesLoop(par, section, prefix, keys, res) ==
    IF keys = <<>> THEN res
    ELSE LET key == Head(keys)
             nxt == IF StartsWith(key, prefix)
                    THEN Put(res, StripKey(key, prefix),
                             Get(par, section, key, TRUE, None).val)
                    ELSE res
         IN GetValuesLoop(par, section, prefix, Tail(keys), nxt)

GetValues(par, section, prefix) ==
    GetValuesLoop(par, section, prefix, Options(par, section), <<>>)

\* proxy.update(values): proxy[key] = value for each item, through
\* Parser.set on the private section
RECURSIVE Update(_, _, _)
Update(config, section, values) ==
    IF values = <<>> THEN config
    ELSE Update(ParserSet(config, section, Head(values).k, Head(values).v),
                section, Tail(values))

\* the copy without its startswith test
RECURSIVE PassthroughAll(_, _, _, _, _)
PassthroughAll(config, par, section, prefix, keys) ==
    IF keys = <<>> THEN config
    ELSE PassthroughAll(ParserSet(config, DEFAULTSECT, Head(keys),
                                  Get(par, section, Head(keys), TRUE, None).val),
                        par, section, prefix, Tail(keys))

\* "Add non-component values to default section"
RECURSIVE Passthrough(_, _, _, _, _)
Passthrough(config, par, section, prefix, keys) ==
    IF keys = <<>> THEN config
    ELSE LET key == Head(keys)
             nxt == IF ~StartsWith(key, prefix \o DOT)
                    THEN ParserSet(config, DEFAULTSECT, key,
                                   Get(par, section, key, TRUE, None).val)
                    ELSE config
         IN Passthrough(nxt, par, section, prefix, Tail(keys))

\* a narrower list appended to the broader one instead of replacing it
NextMixinsMerged(par, section, key, mixins) ==
    IF IsError(mixins) \/ ~Found(par, section, key) THEN mixins
    ELSE IF IsError(get_list(par, section, key, None))
        THEN get_list(par, section, key, None)
    ELSE ListOf(mixins.items \o get_list(par, section, key, None).items)

\* mixins = parent.get_list(key, mixins): an interpolation error of an
\* earlier call has already propagated
NextMixins(par, section, key, mixins) ==
    IF IsError(mixins) THEN mixins ELSE get_list(par, section, key, mixins)

\* the three get_list calls that settle the mixin list
ResolveMixins(par, section, prefix, name) ==
    NextMixins(par, section, LayerPrefix(prefix, name) \o MIXIN,
        NextMixins(par, section, LayerPrefix(prefix, DEFAULTNAME) \o MIXIN,
            get_list(par, section, LayerPrefix(prefix, STAR) \o MIXIN, None)))

\* mixins that pull in the mixins their own "mixin" key lists
RECURSIVE MixinLayersNested(_, _, _, _, _)
MixinLayersNested(config, own, par, section, mixins) ==
    IF mixins = <<>> THEN config
    ELSE MixinLayersNested(
            Update(MixinLayersNested(
                       config, own, par, section,
                       as_list(Get(par, section, Head(mixins) \o DOT \o MIXIN,
                                   TRUE, None)).items),
                   own, GetValues(par, section, Head(mixins) \o DOT)),
            own, par, section, Tail(mixins))

\* "for mixin in mixins: proxy.update(...)"
RECURSIVE MixinLayers(_, _, _, _, _)
MixinLayers(config, own, par, section, mixins) ==
    IF mixins = <<>> THEN config
    ELSE MixinLayers(Update(config, own,
                            GetValues(par, section, Head(mixins) \o DOT)),
                     own, par, section, Tail(mixins))

\* the private Parser before the mixins: the passthrough DEFAULT, then the
\* "prefix.*." and the "prefix.default." layers
BaseLayers(prefix, name, par, section) ==
    Update(
        Update(
            Passthrough(AddSection(EmptyParser, Dotted(prefix, name)),
                        par, section, prefix, Options(par, section)),
            Dotted(prefix, name),
            GetValues(par, section, LayerPrefix(prefix, STAR))),
        Dotted(prefix, name),
        GetValues(par, section, LayerPrefix(prefix, DEFAULTNAME)))

\* the meta keys set before the component's own layer instead of after it
TopLayersMetaFirst(base, prefix, name, par, section, mixins) ==
    Update(
        ParserSet(
            ParserSet(MixinLayers(base, Dotted(prefix, name), par, section, mixins),
                      Dotted(prefix, name), NAME, name),
            Dotted(prefix, name), prefix, name),
        Dotted(prefix, name),
        GetValues(par, section, LayerPrefix(prefix, name)))

\* the mixin layers, the component's own layer, then the two meta keys
TopLayers(base, prefix, name, par, section, mixins) ==
    ParserSet(
        ParserSet(
            Update(MixinLayers(base, Dotted(prefix, name), par, section, mixins),
                   Dotted(prefix, name),
                   GetValues(par, section, LayerPrefix(prefix, name))),
            Dotted(prefix, name), NAME, name),
        Dotted(prefix, name), prefix, name)

\* a view is [kind, config, section, mixins, id]; kind is the error when
\* the lookup of the mixin list raised, mixins the list that was used, id
\* the identity of the object (set by the caller that keeps it)
MakeView(prefix, name, par, section, mx) ==
    IF IsError(mx)
    THEN [kind |-> mx.kind, config |-> EmptyParser,
          section |-> Dotted(prefix, name), mixins |-> <<>>, id |-> 0]
    ELSE [kind |-> "view",
          config |-> TopLayers(BaseLayers(prefix, name, par, section),
                               prefix, name, par, section, mx.items),
          section |-> Dotted(prefix, name), mixins |-> mx.items, id |-> 0]

\* _create_proxy: the private Parser of component `name`
CreateProxy(prefix, name, par, section) ==
    MakeView(prefix, name, par, section,
             ResolveMixins(par, section, prefix, name))

\* a raw read of key from a component's private section proxy:
\* config.get(key, raw=True)
ViewRaw(view, key) == Get(view.config, view.section, key, TRUE, None)

----------------------------------------------------------------------------
(* Parser.get_components, one step per factory invocation.                 *)

Pending == [kind |-> "pending", map |-> <<>>]

\* "return components"
Returned(comps) == [kind |-> "dict", map |-> comps]

\* an exception leaving get_components: nothing is returned
Propagated(err, comps) == [kind |-> err, map |-> <<>>]

\* "for name in self.get_list(section, option, **kw)": the list is read once
GetComponentsCall ==
    /\ pc = "idle"
    /\ \E l \in {get_list(parent, args.section, args.option, args.fallback)} :
       IF l.kind = "list"
       THEN /\ names' = l.items
            /\ pc' = "loop"
            /\ result' = result
       ELSE /\ names' = <<>>
            /\ pc' = "done"
            /\ result' = Propagated(l.kind, components)
    /\ UNCHANGED <<heap, parent, args, calls, components, value, depth, passes>>

\* self[section]: Parser.__getitem__ raises KeyError for a missing section
SectionProxyExists ==
    HasSection(parent, args.section) \/ args.section = DEFAULTSECT

\* a factory that builds a name a second time only if it is not yet mapped
FactoryReturnsKeepsFirst ==
    /\ pc = "loop"
    /\ names # <<>>
    /\ SectionProxyExists
    /\ \E view \in {CreateProxy(args.prefix, Head(names), parent, args.section)} :
          /\ view.kind = "view"
          /\ components' =
                IF Has(components, Head(names)) THEN components
                ELSE Put(components, Head(names),
                         [view EXCEPT !.id = Len(calls) + 1])
    /\ calls' = Append(calls, Head(names))
    /\ names' = Tail(names)
    /\ UNCHANGED <<heap, parent, pc, args, result, value, depth, passes>>

\* factory(name, self[section], parent, **opts) with a Component factory
\* that returns: components[name] = the new object
FactoryReturns ==
    /\ pc = "loop"
    /\ names # <<>>
    /\ SectionProxyExists
    /\ \E view \in {CreateProxy(args.prefix, Head(names), parent, args.section)} :
          /\ view.kind = "view"
          /\ components' = Put(components, Head(names),
                               [view EXCEPT !.id = Len(calls) + 1])
    /\ calls' = Append(calls, Head(names))
    /\ names' = Tail(names)
    /\ UNCHANGED <<heap, parent, pc, args, result, value, depth, passes>>

\* the factory raises: the lookup of the mixin list failed inside
\* _create_proxy, or the factory's own code raised after it
FactoryRaises ==
    /\ pc = "loop"
    /\ names # <<>>
    /\ SectionProxyExists
    /\ \E view \in {CreateProxy(args.prefix, Head(names), parent, args.section)} :
          result' = Propagated(IF view.kind = "view" THEN "FactoryError"
                               ELSE view.kind, components)
    /\ calls' = Append(calls, Head(names))
    /\ pc' = "done"
    /\ UNCHANGED <<heap, parent, args, names, components, value, depth, passes>>

\* self[section] raises before the factory is called
SectionProxyRaises ==
    /\ pc = "loop"
    /\ names # <<>>
    /\ ~SectionProxyExists
    /\ result' = Propagated("KeyError", components)
    /\ pc' = "done"
    /\ UNCHANGED <<heap, parent, args, names, calls, components, value, depth, passes>>

\* the loop is over
GetComponentsReturn ==
    /\ pc = "loop"
    /\ names = <<>>
    /\ result' = Returned(components)
    /\ pc' = "done"
    /\ UNCHANGED <<heap, parent, args, names, calls, components, value, depth, passes>>

----------------------------------------------------------------------------
(* Initial states: a loaded parent Parser and the arguments of one         *)
(* get_components call.                                                    *)

S == <<"s">>
T == <<"t">>
CS == <<"c", "s">>
K == <<"k">>

Entry(key, val) == [k |-> key, v |-> val]

\* the entries of cands whose index is in idx, in order: a dict loaded from
\* a file that holds those options
RECURSIVE Pick(_, _, _)
Pick(cands, idx, i) ==
    IF i > Len(cands) THEN <<>>
    ELSE (IF i \in idx THEN <<cands[i]>> ELSE <<>>) \o Pick(cands, idx, i + 1)

\* a parent Parser with section "s"
Loaded(defaults, sect) ==
    [defaults |-> defaults, sections |-> [n \in {S} |-> sect]]

\* the sets that an optional option's value is drawn from; <<>> in the set
\* stands for "option absent"
Opt(key, vals) == {<<Entry(key, v)>> : v \in vals}

Absent == {<<>>}

\* one value of k per layer, so that the layer a value came from shows
LayerCands ==
    << Entry(K, <<"g">>),
       Entry(LayerPrefix(<<"c">>, STAR) \o K, <<"w">>),
       Entry(LayerPrefix(<<"c">>, DEFAULTNAME) \o K, <<"d">>),
       Entry(<<"m", ".", "k">>, <<"1">>),
       Entry(<<"n", ".", "k">>, <<"2">>),
       Entry(LayerPrefix(<<"c">>, <<"a">>) \o K, <<"o">>) >>

InitLayers ==
    \E idx \in SUBSET (1..Len(LayerCands)),
       lst \in {<<"a">>, <<"b", " ", "a">>},
       mw \in Absent \cup Opt(LayerPrefix(<<"c">>, STAR) \o MIXIN,
                              {<<"m">>, <<"n", " ", "m">>}),
       md \in Absent \cup Opt(LayerPrefix(<<"c">>, DEFAULTNAME) \o MIXIN,
                              {<<"n">>}),
       mo \in Absent \cup Opt(LayerPrefix(<<"c">>, <<"a">>) \o MIXIN,
                              {<<"m">>, <<"m", " ", "n">>, <<>>}) :
        /\ parent = Loaded(<<>>, <<Entry(CS, lst)>> \o mw \o md \o mo
                                  \o Pick(LayerCands, idx, 1))
        /\ args = [section |-> S, option |-> CS, prefix |-> <<"c">>,
                   fallback |-> None]

\* at most MaxNames names in a list option, at most MaxExtras optional
\* options on top of the fixed ones
MaxNames == 2
MaxExtras == 3

Bounded(S0, n) == {x \in SUBSET S0 : Cardinality(x) <= n}

NameLists ==
    {l \in {<<"a">>, <<"a", " ", "b">>, <<"b", " ", "a">>, <<"a", " ", "a">>,
            <<"A">>, <<" ">>, <<"a", " ", "b", " ", "a">>,
            <<"b", " ", "a", " ", "a">>} : Len(SplitWs(l)) <= MaxNames}

\* meta keys, a nested mixin declaration, a sibling, a value with a
\* placeholder
ExtraCands ==
    << Entry(NAME, <<"z">>),
       Entry(<<"c">>, <<"y">>),
       Entry(LayerPrefix(<<"c">>, <<"a">>) \o NAME, <<"q">>),
       Entry(LayerPrefix(<<"c">>, STAR) \o NAME, <<"r">>),
       Entry(<<"m", ".">> \o NAME, <<"t">>),
       Entry(<<"c", ".", "a", ".", "c">>, <<"u">>),
       Entry(<<"m", ".">> \o MIXIN, <<"n">>),
       Entry(<<"n", ".", "j">>, <<"3">>),
       Entry(LayerPrefix(<<"c">>, <<"b">>) \o K, <<"5">>),
       Entry(<<"i">>, <<"%", "(", "h", ")", "s">>),
       Entry(LayerPrefix(<<"c">>, STAR) \o <<"j">>, <<"%", "(", "n", "a", "m", "e", ")", "s">>) >>

DefaultCands ==
    << Entry(<<"h">>, <<"x">>),
       Entry(LayerPrefix(<<"c">>, <<"a">>) \o K, <<"7">>),
       Entry(K, <<"8">>) >>

InitExtras ==
    \E idx \in Bounded(1..Len(ExtraCands), MaxExtras),
       didx \in Bounded(1..Len(DefaultCands), 1),
       lst \in {l \in NameLists : Len(SplitWs(l)) = 1} \cup {<<"a", " ", "b">>},
       pfx \in {<<"c">>, <<"C">>},
       mo \in Opt(LayerPrefix(<<"c">>, <<"a">>) \o MIXIN, {<<"m">>})
              \cup Opt(LayerPrefix(<<"c">>, STAR) \o MIXIN, {<<"m">>}) :
        /\ parent = Loaded(Pick(DefaultCands, didx, 1),
                           <<Entry(CS, lst)>> \o mo \o Pick(ExtraCands, idx, 1))
        /\ args = [section |-> S, option |-> CS, prefix |-> pfx,
                   fallback |-> None]

\* keys in which the text of a layer prefix occurs again after the start
RepeatCands ==
    << Entry(<<"m", ".", "a", "m", ".", "k">>, <<"v">>),
       Entry(<<"m", ".", "k">>, <<"1">>),
       Entry(<<"c", ".", "a", ".", "c", ".", "a", ".", "k">>, <<"9">>),
       Entry(<<"c", ".", "a", ".", "k">>, <<"o">>),
       Entry(<<"a", "k">>, <<"p">>) >>

InitRepeats ==
    \E idx \in SUBSET (1..Len(RepeatCands)),
       lst \in {<<"a">>, <<"b", " ", "a">>},
       mo \in Absent \cup Opt(LayerPrefix(<<"c">>, <<"a">>) \o MIXIN, {<<"m">>}) :
        /\ parent = Loaded(<<>>, <<Entry(CS, lst)>> \o mo
                                  \o Pick(RepeatCands, idx, 1))
        /\ args = [section |-> S, option |-> CS, prefix |-> <<"c">>,
                   fallback |-> None]

\* the list option present or absent, the section present or missing, the
\* fallback given as UNSET or not given, a component whose mixin list
\* cannot be interpolated
InitCalls ==
    \E lst \in Absent \cup Opt(CS, NameLists),
       bad \in Absent \cup Opt(LayerPrefix(<<"c">>, <<"b">>) \o MIXIN,
                               {<<"%", "(", "z", ")", "s">>,
                                <<"%", "(", "c", "s", ")", "s">>}),
       sec \in {S, T},
       fb \in {None, UNSET, ListOf(<<<<"a">>>>)} :
        /\ parent = Loaded(<<>>, lst \o bad
                                  \o <<Entry(LayerPrefix(<<"c">>, <<"a">>) \o K, <<"o">>)>>)
        /\ args = [section |-> sec, option |-> CS, prefix |-> <<"c">>,
                   fallback |-> fb]

Init ==
    /\ InitLayers \/ InitExtras \/ InitRepeats \/ InitCalls
    /\ pc = "idle"
    /\ names = <<>>
    /\ calls = <<>>
    /\ components = <<>>
    /\ result = Pending
    /\ value = <<>>
    /\ depth = 0
    /\ passes = 0
    /\ heap = <<>>

Next ==
    \/ GetComponentsCall
    \/ FactoryReturns
    \/ FactoryRaises
    \/ SectionProxyRaises
    \/ GetComponentsReturn

Spec == Init /\ [][Next]_vars

----------------------------------------------------------------------------
(* Parser.get with interpolation, one step per pass of before_get.         *)

\* the option or its section is absent: no interpolation is run
GetAbsent ==
    /\ pc = "get"
    /\ ~Found(parent, args.section, args.option)
    /\ result' = Get(parent, args.section, args.option, FALSE, args.fallback)
    /\ pc' = "done"
    /\ UNCHANGED <<heap, parent, args, names, calls, components, value, depth, passes>>

\* the option is found: before_get starts on its raw value
GetPresent ==
    /\ pc = "get"
    /\ Found(parent, args.section, args.option)
    /\ value' = RawValue(parent, args.section, args.option)
    /\ depth' = MAX_INTERPOLATION_DEPTH
    /\ passes' = 0
    /\ pc' = "interp"
    /\ UNCHANGED <<heap, parent, args, names, calls, components, result>>

\* the outcome of the pass the loop would make next
ThisPass == InterpPass(value, SectionDict(parent, args.section), parent.defaults)

\* the loop without its "depth -= 1"
PassReplacesKeepsDepth ==
    /\ pc = "interp"
    /\ depth > 0
    /\ \E r \in {ThisPass} :
          /\ r.status = "replaced"
          /\ value' = r.val
    /\ passes' = passes + 1
    /\ UNCHANGED <<heap, parent, pc, args, names, calls, components, result, depth>>

\* a pass that replaces its keys; the loop goes on
PassReplaces ==
    /\ pc = "interp"
    /\ depth > 0
    /\ \E r \in {ThisPass} :
          /\ r.status = "replaced"
          /\ value' = r.val
    /\ depth' = depth - 1
    /\ passes' = passes + 1
    /\ UNCHANGED <<heap, parent, pc, args, names, calls, components, result>>

\* a pass that finds no key: break, then the check and the unescape
PassBreaks ==
    /\ pc = "interp"
    /\ depth > 0
    /\ ThisPass.status = "break"
    /\ depth' = depth - 1
    /\ passes' = passes + 1
    /\ result' = InterpFinish(value)
    /\ pc' = "done"
    /\ UNCHANGED <<heap, parent, args, names, calls, components, value>>

\* a pass that looks up a name the merged table lacks
PassMissing ==
    /\ pc = "interp"
    /\ depth > 0
    /\ ThisPass.status = "missing"
    /\ depth' = depth - 1
    /\ passes' = passes + 1
    /\ result' = Raise("InterpolationMissingOptionError")
    /\ pc' = "done"
    /\ UNCHANGED <<heap, parent, args, names, calls, components, value>>

\* the end of the loop taken as success whatever is left in the value
PassesExhaustedReturns ==
    /\ pc = "interp"
    /\ depth = 0
    /\ result' = Str(Replace(value, <<"%", "%">>, PCT))
    /\ pc' = "done"
    /\ UNCHANGED <<heap, parent, args, names, calls, components, value, depth, passes>>

\* "while depth" ends the loop: the check and the unescape
PassesExhausted ==
    /\ pc = "interp"
    /\ depth = 0
    /\ result' = InterpFinish(value)
    /\ pc' = "done"
    /\ UNCHANGED <<heap, parent, args, names, calls, components, value, depth, passes>>

\* the longest chain of options an initial state holds
MaxChain == 11

Letters == <<"a", "b", "c", "d", "e", "f", "g", "h", "i", "j", "k", "l", "m",
             "n", "o">>

\* "%(name)s"
Ref(name) == <<"%", "(">> \o name \o <<")", "s">>

\* options Letters[1] .. Letters[len], each the placeholder of the next
ChainOf(len) == [i \in 1..len |-> Entry(<<Letters[i]>>, Ref(<<Letters[i + 1]>>))]

\* a chain of len references from option "a", ending in a literal, in a
\* reference back to "a", in a reference to itself, or in nothing
InitChain ==
    \E len \in 0..MaxChain :
      \E last \in Absent \cup {<<Entry(<<Letters[len + 1]>>, v)>> :
                    v \in {<<"x">>, <<"%", "%">>, Ref(<<"a">>),
                           Ref(<<Letters[len + 1]>>)}} :
        /\ parent = Loaded(<<>>, ChainOf(len) \o last)
        /\ args = [section |-> S, option |-> <<"a">>, prefix |-> <<>>,
                   fallback |-> None]

\* "%(b.%(o)s)s" and the two options it goes through, in the section or in
\* DEFAULT
InitNested ==
    \E v \in {<<"v">>, <<"V">>, <<"(">>, <<"v", ")">>, <<"%", "%">>},
       w \in {<<"w">>, <<"%", "%">>, <<"w", "%", "(">>, Ref(<<"o">>)},
       bv \in SUBSET {"section", "DEFAULT"},
       inner \in {"section", "DEFAULT"} :
        /\ parent = Loaded(
              (IF inner = "DEFAULT" THEN <<Entry(<<"o">>, v)>> ELSE <<>>)
              \o (IF "DEFAULT" \in bv
                  THEN <<Entry(optionxform(<<"b", ".">> \o v), w)>> ELSE <<>>),
              <<Entry(<<"x">>, <<"%", "(", "b", ".">> \o Ref(<<"o">>)
                                \o <<")", "s">>)>>
              \o (IF inner = "section" THEN <<Entry(<<"o">>, v)>> ELSE <<>>)
              \o (IF "section" \in bv
                  THEN <<Entry(optionxform(<<"b", ".">> \o v), w)>> ELSE <<>>))
        /\ args = [section |-> S, option |-> <<"x">>, prefix |-> <<>>,
                   fallback |-> None]

\* present and absent options of present and missing sections, with the
\* fallback UNSET, not given, or a string
InitFallback ==
    \E sec \in {S, T, DEFAULTSECT},
       opt \in {K, <<"K">>, <<"h">>, <<"z">>},
       fb \in {UNSET, None, Str(<<"f">>)},
       kv \in Absent \cup Opt(K, {<<"g">>, Ref(<<"h">>), Ref(<<"z">>)}),
       hv \in Absent \cup Opt(<<"h">>, {<<"x">>}) :
        /\ parent = Loaded(hv, kv)
        /\ args = [section |-> sec, option |-> opt, prefix |-> <<>>,
                   fallback |-> fb]

\* raw values with doubled percent signs: alone, before a letter, before a
\* placeholder, before "(", after a placeholder, and in the value a
\* placeholder names; a placeholder without its trailing s
InitEscape ==
    \E raw \in {<<"%", "%", "Y">>, <<"%", "%", "%", "%">>,
                 <<"%", "%">> \o <<"(", "a", ")", "s">>, <<"%", "%", "(">>,
                 Ref(<<"a">>) \o <<"%", "%">>, <<"%", "%">> \o Ref(<<"a">>),
                 <<"Y">>, <<"%", "(", "a", ")">>},
       av \in Absent \cup Opt(<<"a">>, {<<"x">>, <<"%", "%">>, <<"%", "%", "Y">>}) :
        /\ parent = Loaded(<<>>, <<Entry(<<"p">>, raw)>> \o av)
        /\ args = [section |-> S, option |-> <<"p">>, prefix |-> <<>>,
                   fallback |-> None]

InitGet ==
    /\ InitChain \/ InitNested \/ InitFallback \/ InitEscape
    /\ pc = "get"
    /\ names = <<>>
    /\ calls = <<>>
    /\ components = <<>>
    /\ result = Pending
    /\ value = <<>>
    /\ depth = 0
    /\ passes = 0
    /\ heap = <<>>

NextGet ==
    \/ GetAbsent
    \/ GetPresent
    \/ PassReplaces
    \/ PassBreaks
    \/ PassMissing
    \/ PassesExhausted

SpecGet == InitGet /\ [][NextGet]_vars

\* before_get on the string a first resolution returned, against the same
\* table; calls keeps the first result
Reresolve ==
    /\ pc = "done"
    /\ calls = <<>>
    /\ result.kind = "str"
    /\ calls' = <<result.val>>
    /\ value' = result.val
    /\ depth' = MAX_INTERPOLATION_DEPTH
    /\ passes' = 0
    /\ result' = Pending
    /\ pc' = "interp"
    /\ UNCHANGED <<heap, parent, args, names, components>>

NextAgain ==
    \/ NextGet
    \/ Reresolve

SpecAgain == InitGet /\ [][NextAgain]_vars

----------------------------------------------------------------------------
(* Component views held by reference: the objects that get_components     *)
(* returns are kept by the caller, written through config.set, read        *)
(* through config.get, while the parent Parser is written too.             *)

\* the operations on views, by the value pc takes after each
ViewPcs == {"loop", "built", "set", "parentset", "read"}

\* a store shared by all components instead of a new one for each
SharedStore(h) == 1

\* "config = Parser()": a new object, distinct from every existing one
FreshStore(h) == Len(h) + 1

\* the heap with store ref holding config
Stored(h, ref, config) ==
    [i \in 1..(IF ref > Len(h) THEN ref ELSE Len(h)) |->
        IF i = ref THEN config ELSE h[i]]

\* components[name] = factory(name, self[section], parent): the Component
\* keeps the proxy of its private Parser in self.config
ViewBuild ==
    /\ pc \in ViewPcs
    /\ names # <<>>
    /\ \E view \in {CreateProxy(args.prefix, Head(names), parent, args.section)} :
          /\ view.kind = "view"
          /\ \E ref \in {FreshStore(heap)} :
                /\ heap' = Stored(heap, ref, view.config)
                /\ components' = Put(components, Head(names),
                                     [view EXCEPT !.config = ref, !.id = ref])
    /\ calls' = Append(calls, Head(names))
    /\ names' = Tail(names)
    /\ pc' = "built"
    /\ UNCHANGED <<parent, args, result, value, depth, passes>>

\* the keys and the value written after construction
WriteKeys == {K, <<"w">>}
WriteValue == <<"z">>

\* config.set(key, value) on the view of component i:
\* partial(proxy.parser.set, proxy.name)
ViewSet ==
    /\ pc \in ViewPcs
    /\ \E i \in 1..Len(components), key \in WriteKeys :
          /\ heap' = [heap EXCEPT ![components[i].v.config] =
                        ParserSet(@, components[i].v.section, key, WriteValue)]
          /\ result' = [kind |-> "set", map |-> <<>>]
    /\ pc' = "set"
    /\ UNCHANGED <<parent, args, names, calls, components, value, depth, passes>>

\* parent.set(section, key, value) by the owner of the parent Parser, once
\* get_components has built its components
ParentSet ==
    /\ pc \in ViewPcs
    /\ names = <<>>
    /\ \E key \in {K, LayerPrefix(args.prefix, <<"a">>) \o K} :
          parent' = ParserSet(parent, args.section, key, WriteValue)
    /\ result' = [kind |-> "parentset", map |-> <<>>]
    /\ pc' = "parentset"
    /\ UNCHANGED <<heap, args, names, calls, components, value, depth, passes>>

\* the raw value of key in the view of component i
HeldRaw(h, view, key) ==
    Get(h[view.config], view.section, key, TRUE, None)

\* config.get(key) on the view of component i: interpolated at the read
ViewGet ==
    /\ pc \in ViewPcs
    /\ \E i \in 1..Len(components), key \in {K, <<"j">>} :
          result' = [kind |-> "read", map |-> <<>>, target |-> i, key |-> key,
                     got |-> Get(heap[components[i].v.config],
                                 components[i].v.section, key, FALSE, None)]
    /\ pc' = "read"
    /\ UNCHANGED <<heap, parent, args, names, calls, components, value, depth,
                   passes>>

\* at most MaxViewOpts optional options in the parent of the views
MaxViewOpts == 3

\* layers of k, values with placeholders in the wildcard, mixin and own
\* layers, and a mixin key in which the mixin's prefix occurs twice
ViewCands ==
    << Entry(K, <<"g">>),
       Entry(LayerPrefix(<<"c">>, STAR) \o K, <<"w">>),
       Entry(LayerPrefix(<<"c">>, <<"a">>) \o K, <<"o">>),
       Entry(LayerPrefix(<<"c">>, STAR) \o <<"j">>, Ref(NAME)),
       Entry(<<"m", ".", "j">>, Ref(K)),
       Entry(LayerPrefix(<<"c">>, <<"a">>) \o <<"j">>, Ref(<<"a", "m", ".", "k">>)),
       Entry(<<"m", ".", "a", "m", ".", "k">>, <<"v">>) >>

InitView ==
    /\ \E idx \in Bounded(1..Len(ViewCands), MaxViewOpts),
          lst \in {<<"a">>, <<"a", " ", "b">>} :
          parent = Loaded(<<>>, <<Entry(CS, lst),
                                  Entry(LayerPrefix(<<"c">>, STAR) \o MIXIN, <<"m">>)>>
                                \o Pick(ViewCands, idx, 1))
    /\ args = [section |-> S, option |-> CS, prefix |-> <<"c">>,
               fallback |-> None]
    /\ pc = "idle"
    /\ names = <<>>
    /\ calls = <<>>
    /\ components = <<>>
    /\ result = Pending
    /\ value = <<>>
    /\ depth = 0
    /\ passes = 0
    /\ heap = <<>>

NextView ==
    \/ GetComponentsCall
    \/ ViewBuild
    \/ ViewSet
    \/ ParentSet
    \/ ViewGet

SpecView == InitView /\ [][NextView]_vars

----------------------------------------------------------------------------
(* The typed accessors: get_int, and the converters called through         *)
(* _get_conv (get_path, get_bytes).                                        *)

\* Python objects other than str, list and None
IntObj(n) == [kind |-> "int", num |-> n]

Digits == <<"0", "1", "2", "3", "4", "5", "6", "7", "8", "9">>

DigitVal(c) == (CHOOSE i \in 1..Len(Digits) : Digits[i] = c) - 1

IsDigit(c) == \E i \in 1..Len(Digits) : Digits[i] = c

\* the number the digits of s are in the base, added to acc; -1 when s has
\* a character that is no digit of the base
RECURSIVE ParseDigits(_, _, _)
ParseDigits(s, base, acc) ==
    IF s = <<>> THEN acc
    ELSE IF ~IsDigit(Head(s)) \/ DigitVal(Head(s)) >= base THEN -1
    ELSE ParseDigits(Tail(s), base, acc * base + DigitVal(Head(s)))

HexPrefix == <<"0", "x">>

\* the digits of a literal after its prefix, and the base they are read in:
\* base 0 takes the base from the prefix, and base 16 allows "0x"
LiteralDigits(s, base) ==
    IF base \in {0, 16} /\ StartsWith(s, HexPrefix)
        THEN SubSeq(s, 3, Len(s)) ELSE s

LiteralBase(s, base) ==
    IF base # 0 THEN base
    ELSE IF StartsWith(s, HexPrefix) THEN 16 ELSE 10

\* int(s, base): base 0 rejects a decimal literal with a leading zero
IntOf(s, base) ==
    IF \/ LiteralDigits(s, base) = <<>>
       \/ (base = 0 /\ Len(s) > 1 /\ s[1] = "0" /\ ~StartsWith(s, HexPrefix))
       \/ ParseDigits(LiteralDigits(s, base), LiteralBase(s, base), 0) < 0
    THEN Raise("ValueError")
    ELSE IntObj(ParseDigits(LiteralDigits(s, base), LiteralBase(s, base), 0))

\* str(n) for n >= 0
RECURSIVE DecStr(_)
DecStr(n) ==
    IF n < 10 THEN <<Digits[n + 1]>>
    ELSE DecStr(n \div 10) \o <<Digits[(n % 10) + 1]>>

\* str.split(sep) with a separator: the pieces between the occurrences of
\* sep, empty pieces included
RECURSIVE SplitSep(_, _)
SplitSep(s, sep) ==
    IF FindFrom(s, sep, 1) = 0 THEN <<s>>
    ELSE <<SubSeq(s, 1, FindFrom(s, sep, 1) - 1)>>
         \o SplitSep(SubSeq(s, FindFrom(s, sep, 1) + Len(sep), Len(s)), sep)

NonEmpty(piece) == piece # <<>>

\* pathlib.Path(s): the components of s, and whether s is rooted
as_path(s) ==
    [kind |-> "path", val |-> IF StartsWith(s, <<"/">>) THEN <<"/">> ELSE <<>>,
     items |-> SelectSeq(SplitSep(s, <<"/">>), NonEmpty)]

\* str(value)
StrOf(v) ==
    CASE v.kind = "str" -> v.val
      [] v.kind = "int" -> DecStr(v.num)
      [] OTHER          -> <<"?">>

\* humanfriendly.parse_size(str(value)): a number of bytes, with "k" for
\* thousands
as_bytes(s) ==
    IF s # <<>> /\ ParseDigits(s, 10, 0) >= 0 THEN IntObj(ParseDigits(s, 10, 0))
    ELSE IF Len(s) > 1 /\ s[Len(s)] = "k"
            /\ ParseDigits(SubSeq(s, 1, Len(s) - 1), 10, 0) >= 0
        THEN IntObj(1000 * ParseDigits(SubSeq(s, 1, Len(s) - 1), 10, 0))
    ELSE Raise("InvalidSize")

\* the converter registered under the accessor's name
Conv(conv, s) == IF conv = "path" THEN as_path(s) ELSE as_bytes(s)

\* "if value is None: return None; return int(str(value), base=base)"
IntValue(v, base) ==
    IF IsError(v) \/ v = None THEN v ELSE IntOf(StrOf(v), base)

\* get_int: the fallback goes to get, and what get returns is converted
get_int(parser, section, option, base, fallback) ==
    IntValue(Get(parser, section, option, FALSE, fallback), base)

\* _get_conv: got is what get returned with fallback=UNSET
ConvValue(got, conv, fallback) ==
    IF got.kind \in {"NoSectionError", "NoOptionError"}
    THEN (IF fallback = UNSET \/ fallback = None THEN Missing(got.kind, fallback)
          ELSE IF fallback.kind = "str" THEN Conv(conv, fallback.val)
          ELSE fallback)
    ELSE IF IsError(got) THEN got
    ELSE Conv(conv, got.val)

get_conv(parser, section, option, conv, fallback) ==
    ConvValue(Get(parser, section, option, FALSE, UNSET), conv, fallback)

\* one call of get_int
GetIntCall ==
    /\ pc = "typed"
    /\ args.accessor = "int"
    /\ result' = get_int(parent, args.section, args.option, args.base,
                         args.fallback)
    /\ pc' = "done"
    /\ UNCHANGED <<heap, parent, args, names, calls, components, value, depth,
                   passes>>

\* one call of get_path or get_bytes
GetConvCall ==
    /\ pc = "typed"
    /\ args.accessor \in {"path", "bytes"}
    /\ result' = get_conv(parent, args.section, args.option, args.accessor,
                          args.fallback)
    /\ pc' = "done"
    /\ UNCHANGED <<heap, parent, args, names, calls, components, value, depth,
                   passes>>

\* the bases of get_int, and 0 for the accessors that take none
Accessors ==
    {[accessor |-> "int", base |-> b] : b \in {0, 8, 10, 16}}
    \cup {[accessor |-> a, base |-> 0] : a \in {"path", "bytes"}}

\* option k present or absent, in a present or a missing section; the
\* fallback not given, UNSET, a string, or an object of a native type
InitTyped ==
    /\ \E kv \in Absent \cup Opt(K, {<<"1", "0">>, <<"0", "x", "1", "0">>,
                                     <<"9">>, <<"a", "/", "b", "/">>,
                                     <<"1", "k">>}),
          sec \in {S, T},
          acc \in Accessors,
          fb \in {None, UNSET, Str(<<"1", "0">>), Str(<<"9">>),
                  Str(<<"a", "/", "b", "/">>), IntObj(10), IntObj(9), IntObj(0),
                  as_path(<<"a">>)} :
          /\ parent = Loaded(<<>>, kv)
          /\ args = [section |-> sec, option |-> K, prefix |-> <<>>,
                     fallback |-> fb, accessor |-> acc.accessor,
                     base |-> acc.base]
    /\ pc = "typed"
    /\ names = <<>>
    /\ calls = <<>>
    /\ components = <<>>
    /\ result = Pending
    /\ value = <<>>
    /\ depth = 0
    /\ passes = 0
    /\ heap = <<>>

NextTyped ==
    \/ GetIntCall
    \/ GetConvCall

SpecTyped == InitTyped /\ [][NextTyped]_vars

----------------------------------------------------------------------------
(* get_list and get_set with a separator and an element converter.        *)

\* str.strip(): without the whitespace at both ends
RECURSIVE Strip(_)
Strip(s) ==
    IF s = <<>> THEN s
    ELSE IF Head(s) = " " THEN Strip(Tail(s))
    ELSE IF s[Len(s)] = " " THEN Strip(SubSeq(s, 1, Len(s) - 1))
    ELSE s

\* value.split(sep): sep is None, or a string
Pieces(s, sep) == IF sep = None THEN SplitWs(s) ELSE SplitSep(s, sep.val)

\* conv(x): str leaves a string as it is, int reads a decimal literal
ConvElem(conv, x) == IF conv = "int" THEN IntOf(Strip(x), 10) ELSE x

\* [conv(x.strip()) for x in pieces]: the first conversion that raises
\* ends the comprehension
RECURSIVE Converted(_, _, _)
Converted(pieces, conv, done) ==
    IF pieces = <<>> THEN ListOf(done)
    ELSE IF conv = "int" /\ IsError(ConvElem(conv, Strip(Head(pieces))))
        THEN ConvElem(conv, Strip(Head(pieces)))
    ELSE Converted(Tail(pieces), conv,
                   Append(done, ConvElem(conv, Strip(Head(pieces)))))

SetOf(elems) == [kind |-> "set", elems |-> elems]

\* the set of a list's elements
AsSetOf(l) ==
    IF IsError(l) THEN l ELSE SetOf({l.items[i] : i \in 1..Len(l.items)})

\* as_list(value, sep, conv)
as_list_with(v, sep, conv) ==
    CASE v.kind = "list" -> v
      [] v.kind = "none" -> ListOf(<<>>)
      [] v.kind = "str"  -> Converted(Pieces(v.val, sep), conv, <<>>)
      [] IsError(v)      -> v
      [] OTHER           -> Raise("AttributeError")

\* as_set(value, sep, conv)
as_set_with(v, sep, conv) ==
    CASE v.kind = "set"  -> v
      [] v.kind = "none" -> SetOf({})
      [] v.kind = "str"  -> AsSetOf(Converted(Pieces(v.val, sep), conv, <<>>))
      [] IsError(v)      -> v
      [] OTHER           -> Raise("AttributeError")

get_list_with(parser, section, option, sep, conv, fallback) ==
    as_list_with(Get(parser, section, option, FALSE, fallback), sep, conv)

get_set_with(parser, section, option, sep, conv, fallback) ==
    as_set_with(Get(parser, section, option, FALSE, fallback), sep, conv)

GetListCall ==
    /\ pc = "list"
    /\ args.accessor = "list"
    /\ result' = get_list_with(parent, args.section, args.option, args.sep,
                               args.conv, args.fallback)
    /\ pc' = "done"
    /\ UNCHANGED <<heap, parent, args, names, calls, components, value, depth,
                   passes>>

GetSetCall ==
    /\ pc = "list"
    /\ args.accessor = "set"
    /\ result' = get_set_with(parent, args.section, args.option, args.sep,
                              args.conv, args.fallback)
    /\ pc' = "done"
    /\ UNCHANGED <<heap, parent, args, names, calls, components, value, depth,
                   passes>>

\* the values of the list option: empty, blank-padded, comma-separated,
\* with an empty element, with a repeated element
ListValues ==
    {<<>>, <<" ", "a", " ", " ", "b", " ">>,
     <<"1", ",", " ", "2", ",", " ", "3">>, <<"a", ",", ",", "b">>,
     <<"b", " ", "a", " ", "b">>, <<"a", " ", ",", " ", "b">>}

InitList ==
    /\ \E kv \in Absent \cup Opt(K, ListValues),
          sep \in {None, Str(<<",">>)},
          conv \in {"str", "int"},
          acc \in {"list", "set"},
          fb \in {None, UNSET, Str(<<>>), Str(<<"a", " ", "b">>),
                  ListOf(<< <<"a">> >>)} :
          /\ parent = Loaded(<<>>, kv)
          /\ args = [section |-> S, option |-> K, prefix |-> <<>>,
                     fallback |-> fb, accessor |-> acc, sep |-> sep,
                     conv |-> conv]
    /\ pc = "list"
    /\ names = <<>>
    /\ calls = <<>>
    /\ components = <<>>
    /\ result = Pending
    /\ value = <<>>
    /\ depth = 0
    /\ passes = 0
    /\ heap = <<>>

NextList ==
    \/ GetListCall
    \/ GetSetCall

SpecList == InitList /\ [][NextList]_vars

----------------------------------------------------------------------------
(* get_rate: a Rate from an option and its dotted sub-options.             *)

\* datetime.timedelta(seconds=n)
TimeDelta(n) == [kind |-> "timedelta", num |-> n]

\* a Python bool
Bool(b) == [kind |-> "bool", flag |-> b]

\* Rate(period, sync, offset, at_start): a number given as period or offset
\* becomes a timedelta
RateObj(period, sync, offset, at_start) ==
    [kind     |-> "rate",
     period   |-> IF period.kind = "int" THEN TimeDelta(period.num) ELSE period,
     sync     |-> sync,
     offset   |-> IF offset.kind = "int" THEN TimeDelta(offset.num) ELSE offset,
     at_start |-> at_start]

\* pytimeparse.parse(s) handed to timedelta(seconds=...): a decimal number
\* of seconds, with or without the unit s; parse gives None for any other
\* text, which timedelta rejects
Duration(s) ==
    LET digits == IF s # <<>> /\ s[Len(s)] = "s"
                  THEN SubSeq(s, 1, Len(s) - 1) ELSE s
    IN  IF IsError(IntOf(digits, 10)) THEN Raise("TypeError")
        ELSE TimeDelta(IntOf(digits, 10).num)

as_timedelta(v) ==
    CASE v.kind \in {"timedelta", "none"} -> v
      [] v.kind = "int" -> TimeDelta(v.num)
      [] v.kind = "str" -> Duration(v.val)
      [] IsError(v)     -> v
      [] OTHER          -> Raise("TypeError")

\* RawConfigParser.BOOLEAN_STATES
TrueWords == {<<"1">>, <<"y", "e", "s">>, <<"t", "r", "u", "e">>, <<"o", "n">>}
FalseWords ==
    {<<"0">>, <<"n", "o">>, <<"f", "a", "l", "s", "e">>, <<"o", "f", "f">>}

\* str(value) of a value as_boolean is given
BoolText(v) ==
    CASE v.kind = "bool" -> IF v.flag THEN <<"T", "r", "u", "e">>
                            ELSE <<"F", "a", "l", "s", "e">>
      [] OTHER -> StrOf(v)

\* as_boolean(value): str(value).lower() looked up in BOOLEAN_STATES
as_boolean(v) ==
    LET word == [i \in 1..Len(BoolText(v)) |-> LowerChar(BoolText(v)[i])]
    IN  IF word \in TrueWords THEN Bool(TRUE)
        ELSE IF word \in FalseWords THEN Bool(FALSE)
        ELSE Raise("ValueError")

get_timedelta(parser, section, option, fallback) ==
    as_timedelta(Get(parser, section, option, FALSE, fallback))

get_boolean(parser, section, option, fallback) ==
    LET got == Get(parser, section, option, FALSE, fallback)
    IN  IF got = None \/ IsError(got) THEN got ELSE as_boolean(got)

\* the starting period, sync, offset and at_start of get_rate
RateDefaults(fallback) ==
    IF fallback.kind = "rate" THEN fallback
    ELSE [kind |-> "rate", period |-> fallback, sync |-> Bool(FALSE),
          offset |-> IntObj(0), at_start |-> Bool(FALSE)]

\* period = proxy.get_timedelta(option, fallback=period)
\* period = proxy.get_timedelta(option.period, fallback=period)
RatePeriodPeriodFirst(parser, section, option, start) ==
    LET first == get_timedelta(parser, section,
                               Dotted(option, <<"p", "e", "r", "i", "o", "d">>),
                               start)
    IN  IF IsError(first) THEN first
        ELSE get_timedelta(parser, section, option, first)

RatePeriod(parser, section, option, start) ==
    LET first == get_timedelta(parser, section, option, start)
    IN  IF IsError(first) THEN first
        ELSE get_timedelta(parser, section,
                           Dotted(option, <<"p", "e", "r", "i", "o", "d">>),
                           first)

\* the rest of get_rate once the period is known
RateFrom(parser, section, option, start, period) ==
    LET sync     == get_boolean(parser, section,
                                Dotted(option, <<"s", "y", "n", "c">>),
                                start.sync)
        offset   == get_timedelta(parser, section,
                                  Dotted(option, <<"o", "f", "f", "s", "e", "t">>),
                                  start.offset)
        at_start == get_boolean(parser, section,
                                Dotted(option, <<"a", "t", "_", "s", "t", "a", "r", "t">>),
                                start.at_start)
    IN  IF IsError(period) \/ period = None THEN period
        ELSE IF IsError(sync) THEN sync
        ELSE IF IsError(offset) THEN offset
        ELSE IF IsError(at_start) THEN at_start
        ELSE RateObj(period, sync, offset, at_start)

\* Parser.get_rate: self[section] needs the section
get_rate(parser, section, option, fallback) ==
    IF ~HasSection(parser, section) THEN Raise("KeyError")
    ELSE RateFrom(parser, section, option, RateDefaults(fallback),
                  RatePeriod(parser, section, option,
                             RateDefaults(fallback).period))

GetRateCall ==
    /\ pc = "rate"
    /\ result' = get_rate(parent, args.section, args.option, args.fallback)
    /\ pc' = "got"
    /\ UNCHANGED <<heap, parent, args, names, calls, components, value, depth,
                   passes>>

\* nexttime aligned to the period without the offset
nexttimeNoOffset(rate, curtime) ==
    IF rate.sync.flag
        THEN IF rate.period.num = 0 THEN Raise("ZeroDivisionError")
             ELSE TimeDelta(rate.period.num - (curtime % rate.period.num))
    ELSE TimeDelta(rate.period.num)

\* Rate.nexttime(curtime) over whole seconds: the seconds to wait
nexttime(rate, curtime) ==
    IF rate.sync.flag
        THEN IF rate.period.num = 0 THEN Raise("ZeroDivisionError")
             ELSE TimeDelta(rate.period.num
                            - ((curtime - rate.offset.num) % rate.period.num))
    ELSE TimeDelta(rate.period.num)

\* the latest second nexttime is asked at
MaxNow == 20

NextTimeCall ==
    /\ pc = "got"
    /\ result.kind = "rate"
    /\ \E curtime \in 0..MaxNow :
          /\ depth' = curtime
          /\ value' = nexttime(result, curtime)
    /\ pc' = "waited"
    /\ UNCHANGED <<heap, parent, args, names, calls, components, result,
                   passes>>

\* the option of get_rate
R == <<"r">>

RateOpts(name, vals) == Absent \cup Opt(Dotted(R, name), vals)

InitRate ==
    /\ \E base \in Absent \cup Opt(R, {<<"6", "0">>, <<"x">>}),
          period \in RateOpts(<<"p", "e", "r", "i", "o", "d">>, {<<"3", "0">>}),
          sync \in RateOpts(<<"s", "y", "n", "c">>,
                            {<<"t", "r", "u", "e">>, <<"n", "o">>}),
          offset \in RateOpts(<<"o", "f", "f", "s", "e", "t">>,
                              {<<"1", "0", "s">>}),
          at_start \in RateOpts(<<"a", "t", "_", "s", "t", "a", "r", "t">>,
                                {<<"y", "e", "s">>}),
          sec \in {S, T},
          fb \in {None, UNSET, IntObj(10), IntObj(0), Str(<<"2", "0">>),
                  RateObj(IntObj(40), Bool(TRUE), IntObj(3), Bool(TRUE)),
                  RateObj(IntObj(40), Bool(FALSE), IntObj(0), Bool(FALSE))} :
          /\ parent = Loaded(<<>>, base \o period \o sync \o offset \o at_start)
          /\ args = [section |-> sec, option |-> R, prefix |-> <<>>,
                     fallback |-> fb]
    /\ pc = "rate"
    /\ names = <<>>
    /\ calls = <<>>
    /\ components = <<>>
    /\ result = Pending
    /\ value = <<>>
    /\ depth = 0
    /\ passes = 0
    /\ heap = <<>>

NextRate ==
    \/ GetRateCall
    \/ NextTimeCall

SpecRate == InitRate /\ [][NextRate]_vars

----------------------------------------------------------------------------
(* get_callback: a function of a module, and its optional initializer.    *)
(* calls is the log of what the call did outside the parser: the module   *)
(* it imported, the attributes it looked up, the initializer it invoked.  *)

Event(op, name) == [op |-> op, name |-> name]

\* the one module that importlib finds, and its attributes
OsModule == <<"o", "s">>
ModuleAttrs(modname) ==
    IF modname = OsModule THEN {<<"f">>, <<"i">>, <<"b", "o", "o", "m">>}
    ELSE {}

\* the initializers that raise when invoked
RaisingInits == {<<"b", "o", "o", "m">>}

CallbackName(sub) == Dotted(args.option, sub)

\* if initname: a non-empty string
Truthy(v) == v.kind = "str" /\ v.val # <<>>

\* the step that follows the import, the function lookup and the
\* initializer, with the initializer run right after the import
CallbackInitFirst(step, initname) ==
    CASE step = "import"  -> IF Truthy(initname) THEN "cb_runinit"
                             ELSE "cb_getattr"
      [] step = "runinit" -> "cb_getattr"
      [] OTHER            -> "cb_return"

\* the step that follows the import, the function lookup and the
\* initializer
CallbackAfter(step, initname) ==
    CASE step = "import"  -> "cb_getattr"
      [] step = "getattr" -> IF Truthy(initname) THEN "cb_runinit"
                             ELSE "cb_return"
      [] OTHER            -> "cb_return"

\* modname = self.get(section, option.module, fallback=UNSET), with the
\* except clause around it
CallbackModule ==
    /\ pc = "cb"
    /\ \E got \in {Get(parent, args.section,
                       CallbackName(<<"m", "o", "d", "u", "l", "e">>),
                       FALSE, UNSET)} :
          IF got.kind \in {"NoSectionError", "NoOptionError"}
              THEN /\ result' = Missing(got.kind, args.fallback)
                   /\ pc' = "done"
                   /\ names' = names
          ELSE IF IsError(got)
              THEN /\ result' = got
                   /\ pc' = "done"
                   /\ names' = names
          ELSE /\ names' = <<got.val>>
               /\ pc' = "cb_function"
               /\ result' = result
    /\ UNCHANGED <<heap, parent, args, calls, components, value, depth, passes>>

\* funcname = self.get(section, option.function, fallback=UNSET), with the
\* except clause around it
CallbackFunction ==
    /\ pc = "cb_function"
    /\ \E got \in {Get(parent, args.section,
                       CallbackName(<<"f", "u", "n", "c", "t", "i", "o", "n">>),
                       FALSE, UNSET)} :
          IF got.kind \in {"NoSectionError", "NoOptionError"}
              THEN /\ result' = Missing(got.kind, args.fallback)
                   /\ pc' = "done"
                   /\ names' = names
          ELSE IF IsError(got)
              THEN /\ result' = got
                   /\ pc' = "done"
                   /\ names' = names
          ELSE /\ names' = Append(names, got.val)
               /\ pc' = "cb_initname"
               /\ result' = result
    /\ UNCHANGED <<heap, parent, args, calls, components, value, depth, passes>>

\* initname = self.get(section, option.init, fallback=None)
CallbackInitName ==
    /\ pc = "cb_initname"
    /\ \E got \in {Get(parent, args.section,
                       CallbackName(<<"i", "n", "i", "t">>), FALSE, None)} :
          IF IsError(got)
              THEN /\ result' = got
                   /\ pc' = "done"
                   /\ components' = components
          ELSE /\ components' = <<got>>
               /\ pc' = "cb_import"
               /\ result' = result
    /\ UNCHANGED <<heap, parent, args, names, calls, value, depth, passes>>

\* module = importlib.import_module(modname)
CallbackImport ==
    /\ pc = "cb_import"
    /\ calls' = Append(calls, Event("import", names[1]))
    /\ IF ModuleAttrs(names[1]) = {}
          THEN /\ result' = Raise("ImportError")
               /\ pc' = "done"
       ELSE /\ pc' = CallbackAfter("import", components[1])
            /\ result' = result
    /\ UNCHANGED <<heap, parent, args, names, components, value, depth, passes>>

\* callback = getattr(module, funcname)
CallbackGetattr ==
    /\ pc = "cb_getattr"
    /\ calls' = Append(calls, Event("getattr", names[2]))
    /\ IF names[2] \notin ModuleAttrs(names[1])
          THEN /\ result' = Raise("AttributeError")
               /\ pc' = "done"
       ELSE /\ pc' = CallbackAfter("getattr", components[1])
            /\ result' = result
    /\ UNCHANGED <<heap, parent, args, names, components, value, depth, passes>>

\* getattr(module, initname)()
CallbackRunInit ==
    /\ pc = "cb_runinit"
    /\ IF components[1].val \notin ModuleAttrs(names[1])
          THEN /\ calls' = Append(calls, Event("getattr", components[1].val))
               /\ result' = Raise("AttributeError")
               /\ pc' = "done"
       ELSE IF components[1].val \in RaisingInits
          THEN /\ calls' = calls \o <<Event("getattr", components[1].val),
                                      Event("init", components[1].val)>>
               /\ result' = Raise("InitError")
               /\ pc' = "done"
       ELSE /\ calls' = calls \o <<Event("getattr", components[1].val),
                                   Event("init", components[1].val)>>
            /\ pc' = CallbackAfter("runinit", components[1])
            /\ result' = result
    /\ UNCHANGED <<heap, parent, args, names, components, value, depth, passes>>

\* return callback: the attribute of the module, named by its two names
CallbackReturn ==
    /\ pc = "cb_return"
    /\ result' = [kind |-> "callable", module |-> names[1], name |-> names[2]]
    /\ pc' = "done"
    /\ UNCHANGED <<heap, parent, args, names, calls, components, value, depth,
                   passes>>

\* the option of get_callback
CB == <<"c", "b">>

CallbackOpts(name, vals) == Absent \cup Opt(Dotted(CB, name), vals)

InitCallback ==
    /\ \E module \in CallbackOpts(<<"m", "o", "d", "u", "l", "e">>,
                                  {OsModule, <<"n", "o">>}),
          function \in CallbackOpts(<<"f", "u", "n", "c", "t", "i", "o", "n">>,
                                    {<<"f">>, <<"g">>}),
          init \in CallbackOpts(<<"i", "n", "i", "t">>,
                                {<<"i">>, <<"f">>, <<>>, <<"g">>,
                                 <<"b", "o", "o", "m">>}),
          sec \in {S, T},
          fb \in {None, UNSET, Str(<<"f", "b">>)} :
          /\ parent = Loaded(<<>>, module \o function \o init)
          /\ args = [section |-> sec, option |-> CB, prefix |-> <<>>,
                     fallback |-> fb]
    /\ pc = "cb"
    /\ names = <<>>
    /\ calls = <<>>
    /\ components = <<>>
    /\ result = Pending
    /\ value = <<>>
    /\ depth = 0
    /\ passes = 0
    /\ heap = <<>>

NextCallback ==
    \/ CallbackModule
    \/ CallbackFunction
    \/ CallbackInitName
    \/ CallbackImport
    \/ CallbackGetattr
    \/ CallbackRunInit
    \/ CallbackReturn

SpecCallback == InitCallback /\ [][NextCallback]_vars

----------------------------------------------------------------------------
(* Claims.                                                                 *)

\* the parent's section merged with its DEFAULT, as the claims speak of it
ParentHas(key) ==
    TableHas(SectionDict(parent, args.section), parent.defaults, key)

ParentRaw(key) ==
    Str(TableGet(SectionDict(parent, args.section), parent.defaults, key))

\* every key a layer could enter: the tails of the parent's keys, and the
\* keys the view holds
Tails(key) == {SubSeq(key, i, Len(key)) : i \in 1..Len(key)}

CandidateKeys(view) ==
    UNION {Tails(k) : k \in Keys(SectionDict(parent, args.section))
                             \cup Keys(parent.defaults)}
    \cup Keys(view.config.defaults)
    \cup Keys(SectionDict(view.config, view.section))

MetaKeys == {NAME, args.prefix, optionxform(args.prefix)}

\* the mixins of the list that define key k, by position in the list
MixinsWith(mixins, k) ==
    {i \in 1..Len(mixins) : ParentHas(mixins[i] \o DOT \o k)}

LastOf(idx) == CHOOSE i \in idx : \A j \in idx : j <= i

\* the value the claimed precedence gives key k in the view of component n
\* built with mixin list mixins
LayeredValue(n, mixins, k) ==
    IF ParentHas(LayerPrefix(args.prefix, n) \o k)
        THEN ParentRaw(LayerPrefix(args.prefix, n) \o k)
    ELSE IF MixinsWith(mixins, k) # {}
        THEN ParentRaw(mixins[LastOf(MixinsWith(mixins, k))] \o DOT \o k)
    ELSE IF ParentHas(LayerPrefix(args.prefix, DEFAULTNAME) \o k)
        THEN ParentRaw(LayerPrefix(args.prefix, DEFAULTNAME) \o k)
    ELSE IF ParentHas(LayerPrefix(args.prefix, STAR) \o k)
        THEN ParentRaw(LayerPrefix(args.prefix, STAR) \o k)
    ELSE IF ParentHas(k) /\ ~StartsWith(k, args.prefix \o DOT)
        THEN ParentRaw(k)
    ELSE None

\* C1: for every component n built by get_components and every key k other
\* than the meta keys, the raw value of k in n's view is the value of the
\* highest-priority parent key that exists: own "p.n.k", then the mixins'
\* "M.k" from the last declared to the first, then "p.default.k", then
\* "p.*.k", then the parent's plain key k.
C1_LayeringPrecedence ==
    \A i \in 1..Len(components) :
        \A k \in CandidateKeys(components[i].v) \ MetaKeys :
            ViewRaw(components[i].v, k)
                = LayeredValue(components[i].k, components[i].v.mixins, k)

\* the option read, and the table it is read against
OptionFound == Found(parent, args.section, args.option)

HasOption(name) == Found(parent, args.section, name)

RawOf(name) == RawValue(parent, args.section, name)

PlaceholderFree(s) == FindAll(s) = <<>>

Unescaped(s) == Replace(s, <<"%", "%">>, PCT)

\* the raw value "%(b.%(o)s)s"
NestedRaw == <<"%", "(", "b", ".">> \o Ref(<<"o">>) \o <<")", "s">>

\* the option read is "%(b.%(o)s)s", o holds a placeholder-free v and
\* "b.v" a placeholder-free w
NestedCase ==
    /\ OptionFound
    /\ RawOf(args.option) = NestedRaw
    /\ HasOption(<<"o">>)
    /\ PlaceholderFree(RawOf(<<"o">>))
    /\ HasOption(<<"b", ".">> \o RawOf(<<"o">>))
    /\ PlaceholderFree(RawOf(<<"b", ".">> \o RawOf(<<"o">>)))

NestedV == RawOf(<<"o">>)

NestedW == RawOf(<<"b", ".">> \o NestedV)

NestedPlain ==
    /\ NestedCase
    /\ ~Contains(NestedV, <<"(">>)
    /\ ~Contains(NestedV, <<")">>)
    /\ ~Contains(NestedW, OPEN)

RECURSIVE Follow(_, _)
Follow(name, n) ==
    IF n > Len(SectionDict(parent, args.section)) + Len(parent.defaults)
        THEN [end |-> "cycle", hops |-> n, val |-> <<>>]
    ELSE IF ~HasOption(name)
        THEN [end |-> "missing", hops |-> n, val |-> <<>>]
    ELSE IF FindAll(RawOf(name)) = <<RawOf(name)>>
        THEN Follow(optionxform(KeyName(RawOf(name))), n + 1)
    ELSE IF PlaceholderFree(RawOf(name)) /\ ~Contains(RawOf(name), OPEN)
        THEN [end |-> "literal", hops |-> n, val |-> RawOf(name)]
    ELSE [end |-> "other", hops |-> n, val |-> <<>>]

\* C3: the resolver makes at most MAX_INTERPOLATION_DEPTH passes, each one
\* using up one of them, and cannot stall before it is done; a chain of
\* placeholders that comes back to itself ends with InterpolationDepthError;
\* a chain that reaches its literal within MAX_INTERPOLATION_DEPTH
\* references returns that literal, unescaped, without error.
C3_BoundedPasses ==
    /\ passes <= MAX_INTERPOLATION_DEPTH
    /\ (pc = "interp") => (depth + passes = MAX_INTERPOLATION_DEPTH)
    /\ (pc \in {"get", "interp"}) => ENABLED NextGet
    /\ (pc = "done" /\ OptionFound /\ Follow(args.option, 0).end = "cycle")
          => result = Raise("InterpolationDepthError")
    /\ (pc = "done" /\ OptionFound /\ Follow(args.option, 0).end = "literal"
           /\ Follow(args.option, 0).hops <= MAX_INTERPOLATION_DEPTH)
          => result = Str(Unescaped(Follow(args.option, 0).val))

\* a=%(b)s with b=%(a)s: ten passes, then the error
C3_Witness ==
    /\ pc = "done"
    /\ args.option = <<"a">>
    /\ OptionFound
    /\ RawOf(<<"a">>) = Ref(<<"b">>)
    /\ HasOption(<<"b">>)
    /\ RawOf(<<"b">>) = Ref(<<"a">>)
    /\ passes = MAX_INTERPOLATION_DEPTH
    /\ result = Raise("InterpolationDepthError")

SectionExists == HasSection(parent, args.section) \/ args.section = DEFAULTSECT

\* C4: an absent option with the fallback UNSET raises NoOptionError when
\* the section exists and NoSectionError when it does not; with no fallback
\* given it yields None, never an error; a present option yields what its
\* value resolves to, whatever the fallback.
C4_ThreeWayFallback ==
    pc = "done" =>
        /\ (~OptionFound /\ args.fallback = UNSET) =>
              (result = Raise(IF SectionExists THEN "NoOptionError"
                              ELSE "NoSectionError"))
        /\ (~OptionFound /\ args.fallback = None) => (result = None)
        /\ OptionFound =>
              (\A fb \in {UNSET, None, Str(<<"f">>)} :
                  result = Get(parent, args.section, args.option, FALSE, fb))

C4_Witness ==
    /\ pc = "done"
    /\ ~OptionFound
    /\ ~SectionExists
    /\ args.fallback = UNSET
    /\ result = Raise("NoSectionError")

\* the components built so far, as <<name, view>> pairs
Built == {<<components[i].k, components[i].v>> : i \in 1..Len(components)}

SectionOf(view) == SectionDict(view.config, view.section)

ParentKeys == Keys(SectionDict(parent, args.section)) \cup Keys(parent.defaults)

\* the list a mixin declaration holds
DeclaredList(key) == get_list(parent, args.section, key, None).items

OwnMixin(n) == LayerPrefix(args.prefix, n) \o MIXIN
DefaultMixin == LayerPrefix(args.prefix, DEFAULTNAME) \o MIXIN
StarMixin == LayerPrefix(args.prefix, STAR) \o MIXIN

\* the list of the closest scope that declares one
ClosestMixins(n) ==
    IF HasOption(OwnMixin(n)) THEN DeclaredList(OwnMixin(n))
    ELSE IF HasOption(DefaultMixin) THEN DeclaredList(DefaultMixin)
    ELSE IF HasOption(StarMixin) THEN DeclaredList(StarMixin)
    ELSE <<>>

\* the names some declaration of n's scopes lists
ScopeNames(n) ==
    UNION {{DeclaredList(key)[i] : i \in 1..Len(DeclaredList(key))} :
           key \in {k \in {OwnMixin(n), DefaultMixin, StarMixin} : HasOption(k)}}

Range(seq) == {seq[i] : i \in 1..Len(seq)}

\* the prefixes of the layers that make up the section of n's view
UsedPrefixes(n, mixins) ==
    {LayerPrefix(args.prefix, STAR), LayerPrefix(args.prefix, DEFAULTNAME),
     LayerPrefix(args.prefix, n)}
    \cup {m \o DOT : m \in Range(mixins)}

\* no key that only namespace B defines is a section-local key of the view
NotMerged(view, n, B) ==
    \A key \in {k \in ParentKeys : StartsWith(k, B \o DOT)} :
        LET k == SubSeq(key, Len(B) + 2, Len(key))
        IN  (/\ k \notin MetaKeys
             /\ \A P \in UsedPrefixes(n, view.mixins) : ~ParentHas(P \o k))
                => ~Has(SectionOf(view), k)

\* C5: the mixin list used for component n is the list of "p.n.mixin" if
\* that option is present, otherwise of "p.default.mixin", otherwise of
\* "p.*.mixin", otherwise empty; and a mixin that only a broader scope's
\* list names contributes no key to n's section.
C5_ClosestScopeMixins ==
    \A c \in Built :
        /\ c[2].mixins = ClosestMixins(c[1])
        /\ \A B \in ScopeNames(c[1]) \ Range(ClosestMixins(c[1])) :
              NotMerged(c[2], c[1], B)

\* "c.*.mixin: n m" and "c.a.mixin: m": a is built from m alone, and n.k
\* does not reach it
C5_Witness ==
    \E c \in Built :
        /\ c[1] = <<"a">>
        /\ HasOption(StarMixin)
        /\ DeclaredList(StarMixin) = << <<"n">>, <<"m">> >>
        /\ HasOption(OwnMixin(c[1]))
        /\ c[2].mixins = << <<"m">> >>
        /\ ParentHas(<<"n", ".", "k">>)
        /\ ~Has(SectionOf(c[2]), K)

C7_PassthroughLayer ==
    \A c \in Built :
        /\ Keys(c[2].config.defaults)
              = {k \in ParentKeys : ~StartsWith(k, args.prefix \o DOT)}
        /\ \A k \in Keys(c[2].config.defaults) :
              /\ Str(Lookup(c[2].config.defaults, k)) = ParentRaw(k)
              /\ ~StartsWith(k, args.prefix \o DOT)

\* DEFAULT key h, plain key "i: %(h)s" and sibling key c.b.k: h and the raw
\* i pass through, c.b.k does not
C7_Witness ==
    \E c \in Built :
        /\ c[1] = <<"a">>
        /\ args.prefix = <<"c">>
        /\ Has(parent.defaults, <<"h">>)
        /\ ParentHas(<<"i">>)
        /\ ParentHas(LayerPrefix(<<"c">>, <<"b">>) \o K)
        /\ Has(c[2].config.defaults, <<"h">>)
        /\ Has(c[2].config.defaults, <<"i">>)
        /\ Lookup(c[2].config.defaults, <<"i">>) = Ref(<<"h">>)
        /\ ~Has(c[2].config.defaults, LayerPrefix(<<"c">>, <<"b">>) \o K)

\* C8: in every view built for prefix p and name n the section's keys
\* "name" and p both hold n, whatever the parent defines.
C8_MetaKeys ==
    \A c \in Built :
        /\ Has(SectionOf(c[2]), NAME)
        /\ Lookup(SectionOf(c[2]), NAME) = c[1]
        /\ Has(SectionOf(c[2]), optionxform(args.prefix))
        /\ Lookup(SectionOf(c[2]), optionxform(args.prefix)) = c[1]

\* the parent defines c.a.name, the mixin key m.name and the plain key name
C8_Witness ==
    \E c \in Built :
        /\ c[1] = <<"a">>
        /\ args.prefix = <<"c">>
        /\ ParentHas(LayerPrefix(<<"c">>, <<"a">>) \o NAME)
        /\ ParentHas(<<"m", ".">> \o NAME)
        /\ ParentHas(NAME)
        /\ c[2].mixins = << <<"m">> >>
        /\ Lookup(SectionOf(c[2]), NAME) = <<"a">>
        /\ Lookup(SectionOf(c[2]), <<"c">>) = <<"a">>

\* C9: when the list option is absent and no fallback is given, the call
\* returns the empty mapping, raises nothing and never invokes the factory.
C9_AbsentListIsEmpty ==
    (~OptionFound /\ args.fallback = None) =>
        /\ calls = <<>>
        /\ ~ENABLED FactoryReturns
        /\ ~ENABLED FactoryRaises
        /\ (pc = "done") => (result = Returned(<<>>))

C9_Witness ==
    /\ pc = "done"
    /\ SectionExists
    /\ ~OptionFound
    /\ args.fallback = None
    /\ calls = <<>>
    /\ result = Returned(<<>>)

\* the list the call parses
ParsedNames == get_list(parent, args.section, args.option, args.fallback)

IsPrefix(s, t) == Len(s) <= Len(t) /\ s = SubSeq(t, 1, Len(s))

\* the position of the last invocation for a name
LastCall(name) ==
    CHOOSE i \in 1..Len(calls) :
        /\ calls[i] = name
        /\ \A j \in (i + 1)..Len(calls) : calls[j] # name

\* every mapped name holds the object of the last invocation for it
KeepsLater(map) ==
    /\ Keys(map) = Range(calls)
    /\ \A i \in 1..Len(map) : map[i].v.id = LastCall(map[i].k)

\* C10: the factory is invoked once per entry of the parsed list, in list
\* order; a name listed twice is built twice and the mapping keeps the
\* later object; when an invocation raises, the error leaves the call, no
\* later name is built and no mapping is returned.
C10_FactoryPerEntryInOrder ==
    /\ (pc = "loop") =>
          /\ ParsedNames.kind = "list"
          /\ calls \o names = ParsedNames.items
          /\ KeepsLater(components)
    /\ (pc = "done" /\ result.kind = "dict") =>
          /\ calls = ParsedNames.items
          /\ KeepsLater(result.map)
    /\ (pc = "done" /\ result.kind # "dict") =>
          /\ result.kind \in Errors
          /\ result.map = <<>>
          /\ ParsedNames.kind = "list" => IsPrefix(calls, ParsedNames.items)
          /\ ~ENABLED FactoryReturns
          /\ ~ENABLED FactoryRaises

\* "a a": two invocations, and the mapping holds the second object
C10_Witness ==
    /\ pc = "done"
    /\ result.kind = "dict"
    /\ calls = << <<"a">>, <<"a">> >>
    /\ Len(result.map) = 1
    /\ result.map[1].v.id = 2

\* the keys a store holds, in DEFAULT or in the section of the view
StoreKeys(h, view) ==
    Keys(h[view.config].defaults)
    \cup Keys(SectionDict(h[view.config], view.section))

\* what one step may change
StoresIndependentStep ==
    /\ \A i, j \in 1..Len(components) :
          (i # j) => (components[i].v.config # components[j].v.config)
    /\ (parent' # parent) => (pc' = "parentset")
    /\ (pc' \in {"loop", "built"}) =>
          (\A j \in 1..Len(heap) : heap'[j] = heap[j])
    /\ (pc' = "built") => (Len(heap') = Len(heap) + 1)
    /\ (pc' = "set") =>
          /\ Len(heap') = Len(heap)
          /\ components' = components
          /\ Cardinality({j \in 1..Len(heap) : heap'[j] # heap[j]}) <= 1
    /\ (pc' = "parentset") =>
          /\ Len(components') = Len(components)
          /\ \A i \in 1..Len(components) :
                \A key \in StoreKeys(heap, components[i].v) \cup WriteKeys :
                    HeldRaw(heap', components'[i].v, key)
                        = HeldRaw(heap, components[i].v, key)

\* C11: reading the list and building a component leave the parent store
\* and every store built before as they were, each component gets a store
\* of its own, a config.set on one view changes no other store and not the
\* parent, and a write to the parent changes no raw value of a built view.
C11_StoresIndependent == [][StoresIndependentStep]_vars

\* a wrote w, b did not, the parent has no w; the parent's c.a.k was
\* changed after construction and a still holds the old value
C11_Witness ==
    /\ pc = "parentset"
    /\ Len(components) = 2
    /\ HeldRaw(heap, components[1].v, <<"w">>) = Str(WriteValue)
    /\ HeldRaw(heap, components[2].v, <<"w">>) = None
    /\ ~ParentHas(<<"w">>)
    /\ ParentHas(LayerPrefix(<<"c">>, <<"a">>) \o K)
    /\ ParentRaw(LayerPrefix(<<"c">>, <<"a">>) \o K) = Str(WriteValue)
    /\ HeldRaw(heap, components[1].v, K) = Str(<<"o">>)

\* the view of component i is as get_components builds it from the parent
\* as it is now: nothing was written to either since
AsBuilt(i) ==
    heap[components[i].v.config]
        = CreateProxy(args.prefix, components[i].k, parent, args.section).config

\* the whole string is one placeholder
IsSingleRef(s) == FindAll(s) = <<s>>

\* what the read of a key whose winning raw value is raw gives component n
\* with mixin list mixins, where the claim says it
LazyRead(n, mixins, raw, got) ==
    /\ PlaceholderFree(raw) => (got = Str(Unescaped(raw)))
    /\ (IsSingleRef(raw) /\ optionxform(KeyName(raw)) \in MetaKeys) =>
          (got = Str(n))
    /\ (/\ IsSingleRef(raw)
        /\ optionxform(KeyName(raw)) \notin MetaKeys
        /\ LayeredValue(n, mixins, optionxform(KeyName(raw))).kind = "str"
        /\ PlaceholderFree(LayeredValue(n, mixins, optionxform(KeyName(raw))).val))
          => (got = Str(Unescaped(
                  LayeredValue(n, mixins, optionxform(KeyName(raw))).val)))

\* C12: a view holds the parent's raw value of the layer that wins for the
\* key, and a read resolves it against the view: a literal reads as itself,
\* "%(name)s" reads as the component's own name, and "%(k)s" reads as the
\* value of k that wins the layering for that component.
C12_LazyInterpolation ==
    (pc = "read" /\ AsBuilt(result.target)) =>
        \A raw \in {LayeredValue(components[result.target].k,
                                 components[result.target].v.mixins,
                                 result.key)} :
            (raw.kind = "str") =>
                /\ HeldRaw(heap, components[result.target].v, result.key) = raw
                /\ LazyRead(components[result.target].k,
                            components[result.target].v.mixins,
                            raw.val, result.got)

\* a raw value read token by token from index i: "%%" is an escaped
\* percent, "%(name)s" a placeholder, anything else a literal character
RECURSIVE EscapeTokens(_, _)
EscapeTokens(r, i) ==
    IF i > Len(r) THEN <<>>
    ELSE IF i + 1 <= Len(r) /\ r[i] = "%" /\ r[i + 1] = "%"
        THEN <<[t |-> "escape", s |-> PCT]>> \o EscapeTokens(r, i + 2)
    ELSE IF KeyEndAt(r, i) # 0
        THEN <<[t |-> "key", s |-> SubSeq(r, i, KeyEndAt(r, i))]>>
             \o EscapeTokens(r, KeyEndAt(r, i) + 1)
    ELSE <<[t |-> "char", s |-> <<r[i]>>]>> \o EscapeTokens(r, i + 1)

\* the text the tokens stand for: an escaped percent is one "%", a
\* placeholder the unescaped value of the option it names
RECURSIVE EscapeText(_)
EscapeText(tokens) ==
    IF tokens = <<>> THEN <<>>
    ELSE (IF Head(tokens).t = "key"
          THEN Unescaped(RawOf(optionxform(KeyName(Head(tokens).s))))
          ELSE Head(tokens).s)
         \o EscapeText(Tail(tokens))

\* the option read is found, and each placeholder of its raw value names an
\* option that is found and holds no placeholder itself
\* every "%" of s belongs to a "%%" or, if keys allows it, to a placeholder
WellEscaped(s, keys) ==
    \A i \in 1..Len(EscapeTokens(s, 1)) :
        /\ EscapeTokens(s, 1)[i].s # PCT \/ EscapeTokens(s, 1)[i].t = "escape"
        /\ EscapeTokens(s, 1)[i].t = "key" => keys

\* the option read is found and well escaped, and each placeholder of its
\* raw value names an option that is found, well escaped and without
\* placeholders
EscapeCase ==
    /\ OptionFound
    /\ WellEscaped(RawOf(args.option), TRUE)
    /\ \A i \in 1..Len(EscapeTokens(RawOf(args.option), 1)) :
          LET tok == EscapeTokens(RawOf(args.option), 1)[i] IN
          (tok.t = "key") =>
              /\ HasOption(optionxform(KeyName(tok.s)))
              /\ WellEscaped(RawOf(optionxform(KeyName(tok.s))), FALSE)

\* C13: each "%%" of a raw value comes out as one "%", unescaped once and
\* after the placeholders were resolved; the escaped percent starts no
\* placeholder, so "%%(a)s" reads as the text "%(a)s".
C13_PercentEscape ==
    (pc = "done" /\ EscapeCase) =>
        (result = Str(EscapeText(EscapeTokens(RawOf(args.option), 1))))

\* a second resolution has ended: calls holds the first result
ResolvedAgain == pc = "done" /\ calls # <<>>

\* C14 as stated: whenever a raw value resolves to s, resolving s again
\* returns s.
C14_ResolveAgainSame ==
    ResolvedAgain => (result = Str(calls[1]))

\* C14: whenever a raw value resolves to an s that holds no "%%",
\* resolving s again succeeds and returns s.
C14_IdempotentWithoutEscapes ==
    (ResolvedAgain /\ ~Contains(calls[1], PCT \o PCT)) =>
        (result = Str(calls[1]))

\* "%%Y" gave "%Y", and "%Y" gives "%Y" again
C14_Witness ==
    /\ ResolvedAgain
    /\ OptionFound
    /\ RawOf(args.option) = <<"%", "%", "Y">>
    /\ calls = << <<"%", "Y">> >>
    /\ result = Str(<<"%", "Y">>)

\* what the accessor of the call returns for a present option holding f
PresentValue(f) ==
    IF args.accessor = "int"
    THEN get_int(Loaded(<<>>, <<Entry(K, f)>>), S, K, args.base, UNSET)
    ELSE get_conv(Loaded(<<>>, <<Entry(K, f)>>), S, K, args.accessor, UNSET)

\* C15: for an absent option, a string fallback gives what the accessor
\* gives for a present option holding that string, and a fallback that is
\* neither a string, None nor UNSET is returned as it is - by get_int for
\* every base, and by the accessors that go through _get_conv.
C15_TypedFallback ==
    (pc = "done" /\ ~OptionFound) =>
        /\ (args.fallback.kind = "str") =>
              (result = PresentValue(args.fallback.val))
        /\ (args.accessor = "int" /\ args.fallback.kind = "int") =>
              (result = args.fallback)
        /\ (args.accessor # "int" /\ args.fallback.kind \in {"int", "path"}) =>
              (result = args.fallback)

\* the input of the accessor: the resolved value of the option, or the
\* fallback when the option is absent
ListInput == Get(parent, args.section, args.option, FALSE, args.fallback)

\* the elements the claim names for a string input: the pieces between the
\* separators (the whitespace runs without one), stripped and converted,
\* in order; none for the empty string
ClaimedElements(s) ==
    IF s = <<>> THEN ListOf(<<>>)
    ELSE Converted(Pieces(s, args.sep), args.conv, <<>>)

\* a list as the accessor of the call returns it
Collected(l) == IF args.accessor = "set" THEN AsSetOf(l) ELSE l

\* C16: a string is split on the separator, or on whitespace runs without
\* one, each element stripped and converted, in order; an empty or absent
\* input gives the empty list (the empty set for get_set) for every
\* separator.
C16_ListAccessor ==
    (pc = "done") =>
        /\ (ListInput = None) => (result = Collected(ListOf(<<>>)))
        /\ (ListInput.kind = "str" /\ ~IsError(ClaimedElements(ListInput.val))) =>
              (result = Collected(ClaimedElements(ListInput.val)))

\* a sub-option of the option get_rate is asked for
RateName(sub) == Dotted(args.option, sub)

PeriodName == RateName(<<"p", "e", "r", "i", "o", "d">>)
SyncName == RateName(<<"s", "y", "n", "c">>)
OffsetName == RateName(<<"o", "f", "f", "s", "e", "t">>)
AtStartName == RateName(<<"a", "t", "_", "s", "t", "a", "r", "t">>)

\* the fallbacks the claim names: none, a number, a duration string, a Rate
ClaimedFallback == args.fallback.kind \in {"none", "int", "str", "rate"}

\* the option, when present, reads as a duration
OptionReadable ==
    HasOption(args.option) => ~IsError(Duration(RawOf(args.option)))

ClaimedPeriod ==
    IF HasOption(PeriodName) THEN Duration(RawOf(PeriodName))
    ELSE IF HasOption(args.option) THEN Duration(RawOf(args.option))
    ELSE CASE args.fallback.kind = "rate" -> args.fallback.period
           [] args.fallback.kind = "int"  -> TimeDelta(args.fallback.num)
           [] args.fallback.kind = "str"  -> Duration(args.fallback.val)
           [] OTHER                       -> None

ClaimedFlag(name, field) ==
    IF HasOption(name) THEN Bool(RawOf(name) \in TrueWords)
    ELSE IF args.fallback.kind = "rate" THEN args.fallback[field]
    ELSE Bool(FALSE)

ClaimedOffset ==
    IF HasOption(OffsetName) THEN Duration(RawOf(OffsetName))
    ELSE IF args.fallback.kind = "rate" THEN args.fallback.offset
    ELSE TimeDelta(0)

WaitPeriod == result.period.num
WaitOffset == result.offset.num
Wait == value.num

\* C18: without sync nexttime is the period for every now and offset; with
\* sync and a positive period it is period - ((now - offset) mod period),
\* more than 0 and at most the period, the period exactly when now - offset
\* is a multiple of it, and now - offset + wait is a multiple of the period.
\* Period 60: at second 5 the wait is 55; with offset 10 it is 5 at second
\* 5 and 55 at second 15.
C18_NextTime ==
    (pc = "waited") =>
        /\ ~result.sync.flag => value = TimeDelta(WaitPeriod)
        /\ (result.sync.flag /\ WaitPeriod > 0) =>
              /\ value.kind = "timedelta"
              /\ Wait = WaitPeriod - ((depth - WaitOffset) % WaitPeriod)
              /\ 0 < Wait /\ Wait <= WaitPeriod
              /\ (Wait = WaitPeriod) <=> ((depth - WaitOffset) % WaitPeriod = 0)
              /\ (depth - WaitOffset + Wait) % WaitPeriod = 0
              /\ (WaitPeriod = 60 /\ WaitOffset = 0 /\ depth = 5) => Wait = 55
              /\ (WaitPeriod = 60 /\ WaitOffset = 10 /\ depth = 5) => Wait = 5
              /\ (WaitPeriod = 60 /\ WaitOffset = 10 /\ depth = 15) => Wait = 55

\* a synchronised Rate of period 60 and offset 10 asked before its offset
C18_Witness ==
    /\ pc = "waited"
    /\ result.sync.flag
    /\ WaitPeriod = 60
    /\ WaitOffset = 10
    /\ depth = 5
    /\ value = TimeDelta(5)

\* the positions of the log where an initializer was invoked, the function
\* was looked up, a module was imported
InitEvents == {i \in 1..Len(calls) : calls[i].op = "init"}
LookedUp(i) ==
    \E j \in 1..(i - 1) :
        /\ calls[j] = Event("getattr", RawOf(CallbackName(<<"f", "u", "n", "c", "t", "i", "o", "n">>)))
        /\ \E k \in 1..(j - 1) : calls[k].op = "import"

CallbackFound ==
    /\ HasOption(CallbackName(<<"m", "o", "d", "u", "l", "e">>))
    /\ HasOption(CallbackName(<<"f", "u", "n", "c", "t", "i", "o", "n">>))

\* the error of the option that get_callback misses first
CallbackMissing ==
    IF ~HasSection(parent, args.section) THEN "NoSectionError"
    ELSE "NoOptionError"

\* C19: within one get_callback the initializer is invoked at most once,
\* and only after module and function were found and the function was
\* looked up in the imported module; with module or function absent the
\* call gives the fallback, or raises the missing-option/section error
\* under UNSET, having imported nothing and invoked no initializer.
C19_CallbackInitOnce ==
    /\ Cardinality(InitEvents) <= 1
    /\ \A i \in InitEvents :
          /\ CallbackFound
          /\ calls[i].name = RawOf(CallbackName(<<"i", "n", "i", "t">>))
          /\ LookedUp(i)
    /\ ~CallbackFound =>
          /\ calls = <<>>
          /\ (pc = "done") =>
                (result = IF args.fallback = UNSET THEN Raise(CallbackMissing)
                          ELSE args.fallback)

\* the initializer ran once, after the lookup of the function, and the
\* function was returned
C19_Witness ==
    /\ pc = "done"
    /\ result.kind = "callable"
    /\ Cardinality(InitEvents) = 1
    /\ Len(calls) = 4
    /\ calls[4].op = "init"

\* the parent keys of the layer with prefix P, and a key without its
\* leading P
LayerKeys(P) == {k \in ParentKeys : StartsWith(k, P)}
WithoutLeading(key, P) == SubSeq(key, Len(P) + 1, Len(key))

\* C20: for every layer prefix P merged into a component, every parent key
\* that starts with P is entered under the key without only that leading P,
\* the rest kept verbatim also when P occurs again inside it, and distinct
\* parent keys of one layer never collapse onto one stripped key.
C20_PrefixStripping ==
    \A b \in Built :
        \A P \in UsedPrefixes(b[1], b[2].mixins) :
            /\ \A key \in LayerKeys(P) :
                  Has(SectionOf(b[2]), WithoutLeading(key, P))
            /\ Keys(GetValues(parent, args.section, P))
                  = {WithoutLeading(key, P) : key \in LayerKeys(P)}
            /\ Cardinality(Keys(GetValues(parent, args.section, P)))
                  = Cardinality(LayerKeys(P))

\* a prefix or a component name written with upper-case letters
UpperCased(n) == optionxform(args.prefix) # args.prefix \/ optionxform(n) # n

\* the parent keys written p.n.k, as the store holds them
OwnKeys(n) == LayerKeys(optionxform(LayerPrefix(args.prefix, n)))

\* C21: the store holds option keys lower-cased, and the synthesizer matches
\* layer prefixes under the same normalisation: for a prefix or a component
\* name written with upper-case letters, the keys written p.n.k are n's own
\* layer, so n's own value of k wins in n's view, and they are kept out of
\* the passthrough DEFAULT.
C21_UniformCase ==
    /\ \A key \in ParentKeys : optionxform(key) = key
    /\ \A b \in Built :
          UpperCased(b[1]) =>
              \A key \in OwnKeys(b[1]) :
                  /\ ~Has(b[2].config.defaults, key)
                  /\ WithoutLeading(key, optionxform(LayerPrefix(args.prefix, b[1])))
                        \notin MetaKeys
                     => /\ Has(SectionOf(b[2]),
                               WithoutLeading(key, optionxform(LayerPrefix(args.prefix, b[1]))))
                        /\ Lookup(SectionOf(b[2]),
                                  WithoutLeading(key, optionxform(LayerPrefix(args.prefix, b[1]))))
                              = ParentRaw(key)

\* the working value references a name that the merged table lacks
MissingName ==
    \E key \in Range(FindAll(value)) : ~ParentHas(optionxform(KeyName(key)))

ResolverStep ==
    (pc = "interp") =>
        /\ (depth > 0 /\ MissingName) =>
              /\ pc' = "done"
              /\ result' = Raise("InterpolationMissingOptionError")
        /\ (pc' = "done" /\ result'.kind = "str") =>
              /\ value' = value
              /\ ~Contains(value, OPEN)
        /\ (pc' = "done" /\ ~(depth > 0 /\ MissingName) /\ Contains(value, OPEN)) =>
              result' = Raise("InterpolationDepthError")

\* C22: the outcome of the resolver is decided by leftover "%(" and not by
\* the pass counter: when it returns normally the string before the
\* unescape holds no "%("; a value in which "%(" remains when the loop ends
\* raises InterpolationDepthError after any number of passes, none
\* included; a referenced name that the merged table lacks raises
\* InterpolationMissingOptionError on the pass that looks it up.
C22_LeftoverDecides == [][ResolverStep]_vars

\* a placeholder without its trailing s: no pass replaced anything and the
\* read raised InterpolationDepthError with passes to spare
C22_Witness ==
    /\ pc = "done"
    /\ HasOption(args.option)
    /\ value = <<"%", "(", "a", ")">>
    /\ value = RawOf(args.option)
    /\ depth > 0
    /\ result = Raise("InterpolationDepthError")

====
